---- MODULE Spec2Model ----
(***************************************************************************)
(* A model of st_render5.2_py: the HSD container decoder (hsd_reader.py),  *)
(* the inverse-Planck calibration (calibration.py), the segment stitcher   *)
(* (segment_merger.py), the colour ramps (colorscale.py) and the HSD       *)
(* render pipeline (main.py).                                              *)
(*                                                                         *)
(* Files are byte arrays, decoded little-endian at a moving cursor exactly *)
(* as hsd_read walks them.  IEEE-754 doubles are decoded from their bytes  *)
(* for the doubles whose low four bytes are zero; their values are       *)
(* exact rationals with the IEEE specials nan / inf / -inf.                *)
(***************************************************************************)
EXTENDS Integers, Sequences, FiniteSets, TLC

VARIABLES
    pc,       \* position of the running operation
    fs,       \* the file system: path -> content
    call,     \* the arguments of the running operation
    hs,       \* the value in hand: an HSData record (None before a read)
    err,      \* the exception that ended the operation ("" when none)
    cursor,   \* the positions the file cursor of hsd_read went through
    pixels    \* the RGB buffer produced

vars == <<pc, fs, call, hs, err, cursor, pixels>>

None == [none |-> TRUE]

\* Op applied to the value of v, with v evaluated once
With(v, Op(_)) == CHOOSE y \in {Op(x) : x \in {v}} : TRUE

(***************************************************************************)
(* Bounds of the model.                                                    *)
(***************************************************************************)
MaxPixels == 2       \* width * height of a drawn tile is at most this
ExpWindow == 24      \* binary exponents -ExpWindow..ExpWindow decode to rationals
LnTerms == 4         \* terms of the series the fixed-point logarithm sums

(***************************************************************************)
(* Integer helpers.                                                        *)
(***************************************************************************)
Min(a, b) == IF a < b THEN a ELSE b
Max(a, b) == IF a > b THEN a ELSE b
Abs(a) == IF a < 0 THEN -a ELSE a

RECURSIVE Gcd(_, _)
Gcd(a, b) == IF b = 0 THEN a ELSE Gcd(b, a % b)

RECURSIVE Pow(_, _)
Pow(b, e) == IF e = 0 THEN 1 ELSE b * Pow(b, e - 1)

\* C-style division, truncating toward zero (a float -> integer cast)
TruncDiv(a, b) == IF a >= 0 THEN a \div b ELSE -((-a) \div b)

(***************************************************************************)
(* Floats: <<"fin", n, d>> is the rational n/d in lowest terms, d > 0;     *)
(* <<"nan">>, <<"inf">>, <<"ninf">> are the IEEE specials; <<"raw", b>> is *)
(* a finite double outside the decoded window, kept as its bytes;          *)
(* <<"planck", hn, hd, an, ad>> is (hn/hd) / ln(an/ad), the value of the   *)
(* inverse Planck law, with an/ad > 0 and an/ad # 1.                       *)
(***************************************************************************)
NaN == <<"nan">>
PInf == <<"inf">>
NInf == <<"ninf">>

Fin(n, d) ==
    LET g == Gcd(Abs(n), Abs(d))
        s == IF d < 0 THEN -1 ELSE 1
    IN  <<"fin", (s * n) \div g, (s * d) \div g>>

\* (a/b) * (c/d), reduced crosswise before it is multiplied out
RatMul(a, b, c, d) ==
    LET g1 == Gcd(Abs(a), Abs(d))
        g2 == Gcd(Abs(c), Abs(b))
    IN  Fin((a \div g1) * (c \div g2), (b \div g2) * (d \div g1))

Zero == Fin(0, 1)
Int2F(i) == Fin(i, 1)

IsFin(x) == x[1] = "fin"
IsNaN(x) == x[1] = "nan"
IsInf(x) == x[1] \in {"inf", "ninf"}
IsZero(x) == IsFin(x) /\ x[2] = 0
Sign(x) ==
    CASE x[1] = "fin" -> (IF x[2] > 0 THEN 1 ELSE IF x[2] < 0 THEN -1 ELSE 0)
      [] x[1] = "inf" -> 1
      [] x[1] = "ninf" -> -1
      [] OTHER -> 0
Signed(s) == IF s > 0 THEN PInf ELSE IF s < 0 THEN NInf ELSE NaN

\* IEEE multiplication: nan absorbs, 0 * inf = nan
FMul(x, y) ==
    CASE IsFin(x) /\ IsFin(y) -> RatMul(x[2], x[3], y[2], y[3])
      [] x[1] \in {"nan", "raw", "planck"} \/ y[1] \in {"nan", "raw", "planck"} -> NaN
      [] OTHER -> Signed(Sign(x) * Sign(y))

\* IEEE addition: nan absorbs, inf + -inf = nan
FAdd(x, y) ==
    CASE IsFin(x) /\ IsFin(y) ->
            LET g == Gcd(x[3], y[3])
            IN  Fin(x[2] * (y[3] \div g) + y[2] * (x[3] \div g), (x[3] \div g) * y[3])
      [] x[1] \in {"nan", "raw", "planck"} \/ y[1] \in {"nan", "raw", "planck"} -> NaN
      [] IsInf(x) /\ IsInf(y) -> (IF x = y THEN x ELSE NaN)
      [] IsInf(x) -> x
      [] OTHER -> y

\* IEEE division with a nonzero divisor, and inf / inf = nan
FDivNZ(x, y) ==
    CASE IsFin(x) /\ IsFin(y) -> RatMul(x[2], x[3], y[3], y[2])
      [] x[1] \in {"nan", "raw", "planck"} \/ y[1] \in {"nan", "raw", "planck"} -> NaN
      [] IsInf(x) /\ IsInf(y) -> NaN
      [] IsInf(x) -> Signed(Sign(x) * Sign(y))
      [] OTHER -> Zero

\* numpy float64 division: x / 0 is inf of x's sign, 0 / 0 is nan (a warning, no
\* exception)
NpDiv(x, y) == IF IsZero(y) THEN Signed(Sign(x)) ELSE FDivNZ(x, y)

\* Python float division raises ZeroDivisionError on a zero divisor
PyDivRaises(x, y) == IsZero(y)
PyDiv(x, y) == FDivNZ(x, y)

\* Python float ** 5 (no overflow in the decoded window)
Pow5(x) == FMul(x, FMul(FMul(x, x), FMul(x, x)))

(***************************************************************************)
(* Byte arrays.  A file is [len, fld, fill]: byte i (0 <= i < len) is      *)
(* fld[i] where fld is defined and fill elsewhere.                         *)
(***************************************************************************)
ByteAt(f, i) == IF i \in DOMAIN f.fld THEN f.fld[i] ELSE f.fill

\* fp.read(n) at offset pos: the bytes that exist, at most n of them
read(f, pos, n) ==
    LET k == Min(n, Max(0, f.len - pos))
    IN  [i \in 1..k |-> ByteAt(f, pos + i - 1)]

\* struct.unpack('<H', b) and struct.unpack('<I', b) of a full buffer
unpack_H(b) == b[1] + 256 * b[2]
unpack_I(b) == b[1] + 256 * b[2] + 65536 * b[3] + 16777216 * b[4]

\* the number of times 2 divides n (n > 0)
RECURSIVE TrailingZeros(_)
TrailingZeros(n) == IF n % 2 = 0 THEN 1 + TrailingZeros(n \div 2) ELSE 0

\* struct.unpack('<d', b) of a full buffer: the sign and the 11-bit exponent are in
\* b[8] and the top of b[7]; the 52 mantissa bits are the low nibble of b[7] and
\* b[6..1].  Decoded exactly when the low 32 mantissa bits are zero and the value
\* is a ratio of two numbers below 2^30; kept as its bytes otherwise.
unpack_d(b) ==
    LET e == (b[8] % 128) * 16 + (b[7] \div 16)
        m == (b[7] % 16) * 65536 + b[6] * 256 + b[5]
        s == IF b[8] >= 128 THEN -1 ELSE 1
        low0 == \A i \in 1..4 : b[i] = 0
        M == 1048576 + m
        tz == TrailingZeros(M)
        k == (e - 1023) - 20 + tz
    IN  CASE e = 2047 /\ m = 0 /\ low0 -> Signed(s)
          [] e = 2047 -> NaN
          [] e = 0 /\ m = 0 /\ low0 -> Zero
          [] low0 /\ e # 0 /\ Abs(e - 1023) <= ExpWindow /\ k >= 0 /\ 21 - tz + k <= 30 ->
                Fin(s * (M \div Pow(2, tz)) * Pow(2, k), 1)
          [] low0 /\ e # 0 /\ Abs(e - 1023) <= ExpWindow /\ k < 0 /\ -k <= 30 ->
                Fin(s * (M \div Pow(2, tz)), Pow(2, -k))
          [] OTHER -> <<"raw", b>>

\* bytes.decode('ascii', errors='ignore').strip('\x00')
RECURSIVE lstrip0(_)
lstrip0(s) == IF s # <<>> /\ Head(s) = 0 THEN lstrip0(Tail(s)) ELSE s
RECURSIVE rstrip0(_)
rstrip0(s) ==
    IF s # <<>> /\ s[Len(s)] = 0 THEN rstrip0(SubSeq(s, 1, Len(s) - 1)) ELSE s
IsAscii(b) == b < 128
decode_name(b) == rstrip0(lstrip0(SelectSeq(b, IsAscii)))

(***************************************************************************)
(* The cursor walk of hsd_read.  The walk state is [pos, err, env, trace]: *)
(* the cursor, the exception raised ("" while none), the fields read and   *)
(* the cursor positions so far.  One instruction is one statement of       *)
(* hsd_read on fp.                                                         *)
(***************************************************************************)
Bind(env, var, val) == (var :> val) @@ env

Moved(st, p) == [st EXCEPT !.pos = p, !.trace = Append(@, p)]

Unpack(f, st, n, var, dec(_)) ==
    LET b == read(f, st.pos, n)
        st1 == Moved(st, st.pos + Len(b))
    IN  IF Len(b) < n
        THEN [st1 EXCEPT !.err = "struct.error"]
        ELSE [st1 EXCEPT !.env = Bind(@, var, dec(b))]

Exec(f, st, ins) ==
    CASE ins[1] = "seek" -> Moved(st, ins[2])
      [] ins[1] = "skip" ->
            IF st.pos + ins[2] < 0 THEN [st EXCEPT !.err = "OSError"]
            ELSE Moved(st, st.pos + ins[2])
      [] ins[1] = "skipv" ->
            IF st.pos + st.env[ins[2]] + ins[3] < 0 THEN [st EXCEPT !.err = "OSError"]
            ELSE Moved(st, st.pos + st.env[ins[2]] + ins[3])
      [] ins[1] = "name" ->
            LET b == read(f, st.pos, ins[2])
            IN  [Moved(st, st.pos + Len(b)) EXCEPT
                    !.env = Bind(@, "satellite_name", decode_name(b))]
      [] ins[1] = "byte" -> Moved(st, st.pos + Len(read(f, st.pos, 1)))
      [] ins[1] = "H" -> Unpack(f, st, 2, ins[2], unpack_H)
      [] ins[1] = "I" -> Unpack(f, st, 4, ins[2], unpack_I)
      [] ins[1] = "d" -> Unpack(f, st, 8, ins[2], unpack_d)
      [] ins[1] = "zero" -> [st EXCEPT !.env = Bind(@, ins[2], Zero)]

RECURSIVE Run(_, _, _)
Run(f, st, script) ==
    IF script = <<>> \/ st.err # "" THEN st
    ELSE With(Exec(f, st, Head(script)), LAMBDA nxt : Run(f, nxt, Tail(script)))

\* hsd_reader.py lines 90-141: the fixed header up to slope and intercept
HeaderScript ==
    << <<"seek", 6>>, <<"name", 16>>, <<"skip", 260>>, <<"byte">>, <<"skip", 4>>,
       <<"H", "width">>, <<"H", "height">>, <<"skip", 41>>, <<"skip", 269>>,
       <<"H", "band">>, <<"d", "wavelength">>, <<"H", "bit_num">>, <<"skip", 4>>,
       <<"d", "slope">>, <<"d", "intc">> >>

\* lines 145-152: the calibration block of a band above 6
CalScript ==
    << <<"d", "c0">>, <<"d", "c1">>, <<"d", "c2">>, <<"skip", 24>>,
       <<"d", "c">>, <<"d", "H">>, <<"d", "k">>, <<"skip", 40>> >>

\* a padding that is two bytes short of the calibration block
PadScriptShort ==
    << <<"zero", "c0">>, <<"zero", "c1">>, <<"zero", "c2">>, <<"zero", "c">>,
       <<"zero", "H">>, <<"zero", "k">>, <<"skip", 110>> >>

\* lines 154-155: the padding of the other bands
PadScript ==
    << <<"zero", "c0">>, <<"zero", "c1">>, <<"zero", "c2">>, <<"zero", "c">>,
       <<"zero", "H">>, <<"zero", "k">>, <<"skip", 112>> >>

\* lines 158-170: the trailing blocks up to the payload
TailScript ==
    << <<"skip", 1 + 47 + 258 + 1>>,
       <<"H", "len8">>, <<"skipv", "len8", -2>>,
       <<"H", "len9">>, <<"skipv", "len9", -2>>,
       <<"I", "len10">>, <<"skipv", "len10", 0>>,
       <<"skip", 254>> >>

\* line 144: the branch on the band
BandBlock(band) == IF band > 6 THEN CalScript ELSE PadScript

\* lines 85-170: the walk from open() to the start of the payload
hsd_walk(f) ==
    LET st0 == [pos |-> 0, err |-> "", env |-> <<>>, trace |-> <<0>>]
        band_block(st1) ==
            IF st1.err # "" THEN st1 ELSE Run(f, st1, BandBlock(st1.env["band"]))
    IN  With(Run(f, st0, HeaderScript),
             LAMBDA st1 : With(band_block(st1), LAMBDA st2 : Run(f, st2, TailScript)))

\* np.frombuffer(data_bytes, dtype=np.uint16, count=n), little-endian host
frombuffer(b, n) == [i \in 1..n |-> b[2 * i - 1] + 256 * b[2 * i]]

\* lines 173-201: the payload and the record; [err, rec, trace]
parse_payload(f, st, debug) ==
    LET e == st.env
        n == e["width"] * e["height"]
        data_bytes == read(f, st.pos, n * 2)
        trace == Append(st.trace, st.pos + Len(data_bytes))
    IN  IF st.err # "" THEN [err |-> st.err, rec |-> None, trace |-> st.trace]
        ELSE IF Len(data_bytes) < n * 2
        THEN [err |-> "ValueError", rec |-> None, trace |-> trace]
        ELSE IF debug /\ n = 0
        THEN [err |-> "IndexError", rec |-> None, trace |-> trace]
        ELSE [err |-> "",
              rec |-> [satellite_name |-> e["satellite_name"],
                       width |-> e["width"], height |-> e["height"],
                       band |-> e["band"], wavelength |-> e["wavelength"],
                       bit_num |-> e["bit_num"],
                       slope |-> e["slope"], intc |-> e["intc"],
                       c0 |-> e["c0"], c1 |-> e["c1"], c2 |-> e["c2"],
                       c |-> e["c"], H |-> e["H"], k |-> e["k"],
                       data |-> frombuffer(data_bytes, n), temp |-> None],
              trace |-> trace]

\* lines 85-201: the walk, then the payload
hsd_parse(f, debug) == With(hsd_walk(f), LAMBDA st : parse_payload(f, st, debug))

(***************************************************************************)
(* The file system.  A path is [tok, bz]: tok is the four digits of its    *)
(* segment token "_Sdddd" (<<>> when the name has none) and bz says that   *)
(* the name ends in ".bz2"; the rest of the name is the same for all the   *)
(* paths of the model.  fs maps a path to None (absent) or to a file; the  *)
(* file at a .bz2 path is the byte array its bz2 stream decompresses to.   *)
(***************************************************************************)
exists(F, p) == p \in DOMAIN F /\ F[p] # None
strip_bz2(p) == [p EXCEPT !.bz = FALSE]

\* decompress_bz2: [err, path, fs]
decompress_bz2(F, filepath) ==
    IF ~filepath.bz THEN [err |-> "", path |-> filepath, fs |-> F]
    ELSE LET dat_filepath == strip_bz2(filepath)
         IN  IF exists(F, dat_filepath)
             THEN [err |-> "", path |-> dat_filepath, fs |-> F]
             ELSE IF ~exists(F, filepath)
             THEN [err |-> "FileNotFoundError", path |-> dat_filepath, fs |-> F]
             ELSE [err |-> "", path |-> dat_filepath,
                   fs |-> [F EXCEPT ![dat_filepath] = F[filepath]]]

\* hsd_read: [err, rec, fs, trace]
hsd_read(F, filepath, delete_dat, debug) ==
    LET d == decompress_bz2(F, filepath)
        parsed(r) ==
            IF r.err # "" THEN [err |-> r.err, rec |-> None, fs |-> d.fs, trace |-> r.trace]
            ELSE [err |-> "", rec |-> r.rec, trace |-> r.trace,
                  fs |-> IF delete_dat /\ d.path # filepath
                         THEN [d.fs EXCEPT ![d.path] = None] ELSE d.fs]
    IN  IF d.err # "" THEN [err |-> d.err, rec |-> None, fs |-> d.fs, trace |-> <<>>]
        ELSE IF ~exists(d.fs, d.path)
        THEN [err |-> "FileNotFoundError", rec |-> None, fs |-> d.fs, trace |-> <<>>]
        ELSE With(hsd_parse(d.fs[d.path], debug), parsed)

(***************************************************************************)
(* Synthetic containers: the inputs of the decoder.  MkFile lays the       *)
(* fields of a tile out at their absolute offsets in the vendor's layout   *)
(* (independently of the cursor walk above) and fills every other byte     *)
(* with 0x55.                                                             *)
(***************************************************************************)
pack_H(v) == <<v % 256, (v \div 256) % 256>>
pack_I(v) == <<v % 256, (v \div 256) % 256, (v \div 65536) % 256, v \div 16777216>>

\* the binary exponent x with d * 2^x <= n < 2 * d * 2^x, and the scaled n/d
RECURSIVE Norm(_, _, _)
Norm(n, d, x) ==
    IF n >= 2 * d THEN Norm(n, 2 * d, x + 1)
    ELSE IF n < d THEN Norm(2 * n, d, x - 1)
    ELSE <<n, d, x>>

\* the bytes of the double n/d, for d a power of two and n below 2^21 * d
pack_d(v) ==
    CASE v = PInf -> <<0, 0, 0, 0, 0, 0, 240, 127>>
      [] v = NInf -> <<0, 0, 0, 0, 0, 0, 240, 255>>
      [] v = NaN -> <<0, 0, 0, 0, 0, 0, 248, 127>>
      [] IsZero(v) -> <<0, 0, 0, 0, 0, 0, 0, 0>>
      [] OTHER ->
            LET nm == Norm(Abs(v[2]), v[3], 0)
                e == nm[3] + 1023
                r == nm[1] - nm[2]
                m == IF nm[2] >= 1048576 THEN r \div (nm[2] \div 1048576)
                     ELSE r * (1048576 \div nm[2])
            IN  <<0, 0, 0, 0, m % 256, (m \div 256) % 256,
                  (e % 16) * 16 + (m \div 65536),
                  (IF v[2] < 0 THEN 128 ELSE 0) + (e \div 16)>>

At(off, b) == [i \in off..(off + Len(b) - 1) |-> b[i - off + 1]]

\* raw sample i of a synthetic tile drawn with seed s
Sample(s, i) == 995 + 2 * i + s

PayloadAt(t) == 1052 + t.len8 + t.len9 + 4 + t.len10 + 254
FullLen(t) == PayloadAt(t) + 2 * t.width * t.height

MkFile(t, len) ==
    LET n == t.width * t.height
        samples == [i \in 0..(2 * n - 1) |->
                       pack_H(Sample(t.seed, (i \div 2) + 1))[(i % 2) + 1]]
        payload == [i \in PayloadAt(t)..(PayloadAt(t) + 2 * n - 1) |->
                       samples[i - PayloadAt(t)]]
        cal == IF t.band > 6
               THEN At(633, pack_d(t.c0)) @@ At(641, pack_d(t.c1))
                    @@ At(649, pack_d(t.c2)) @@ At(681, pack_d(t.c))
                    @@ At(689, pack_d(t.H)) @@ At(697, pack_d(t.k))
               ELSE <<>>
    IN  [len |-> len, fill |-> 85,
         fld |-> At(6, t.name) @@ At(287, pack_H(t.width)) @@ At(289, pack_H(t.height))
                 @@ At(601, pack_H(t.band)) @@ At(603, pack_d(t.wavelength))
                 @@ At(611, pack_H(t.bit_num)) @@ At(617, pack_d(t.slope))
                 @@ At(625, pack_d(t.intc)) @@ cal
                 @@ At(1052, pack_H(t.len8)) @@ At(1052 + t.len8, pack_H(t.len9))
                 @@ At(1052 + t.len8 + t.len9, pack_I(t.len10)) @@ payload]

\* a satellite name of 16 bytes: the text, NUL-padded
NamePad(text) == [i \in 1..16 |-> IF i <= Len(text) THEN text[i] ELSE 0]
NameTexts == {<<72, 56>>, <<71, 79, 69, 83>>}

Dims == {wh \in (0..MaxPixels) \X (0..MaxPixels) : wh[1] * wh[2] <= MaxPixels}
            \cup {<<256, 0>>}

\* radiometric settings of a synthetic tile: wavelength, slope, intercept and the
\* constants c, H, k of the calibration block
Radiometry ==
    { [wavelength |-> Int2F(1000000), slope |-> Fin(-1, 131072),
       intc |-> Fin(1000, 131072),
       c0 |-> Fin(1, 2), c1 |-> Int2F(-3), c2 |-> Fin(1, 8),
       c |-> Int2F(1), H |-> Int2F(1438), k |-> Int2F(1)],
      [wavelength |-> Int2F(2000000), slope |-> Fin(1, 4), intc |-> Int2F(-96),
       c0 |-> Zero, c1 |-> NaN, c2 |-> PInf,
       c |-> Int2F(2), H |-> Int2F(719), k |-> Zero] }

Tile(wh, band, rad, l8, l9, l10, text, seed) ==
    [name |-> NamePad(text), width |-> wh[1], height |-> wh[2], band |-> band,
     wavelength |-> rad.wavelength, bit_num |-> 11 + seed,
     slope |-> rad.slope, intc |-> rad.intc,
     c0 |-> rad.c0, c1 |-> rad.c1, c2 |-> rad.c2,
     c |-> rad.c, H |-> rad.H, k |-> rad.k,
     len8 |-> l8, len9 |-> l9, len10 |-> l10, seed |-> seed, text |-> text]

\* the lengths a container is cut to: whole, and cut in the payload, in the
\* trailing skip, in the length blocks, in the calibration block and in the header
Cuts(t) ==
    {FullLen(t), Max(0, FullLen(t) - 1), PayloadAt(t) - 100, 1053, 640, 288, 10}

PathDAT == [tok |-> <<0, 1, 1, 0>>, bz |-> FALSE]

(***************************************************************************)
(* SpecRead: hsd_read on one synthetic container.                          *)
(***************************************************************************)
InitRead ==
    \E wh \in Dims, band \in {3, 6, 7, 263}, rad \in Radiometry,
       l8 \in {0, 2, 3}, text \in NameTexts, debug \in BOOLEAN :
      LET l10 == Len(text) - 2
          t == Tile(wh, band, rad, l8, 2, l10, text, l10 \div 2)
      IN  \E len \in Cuts(t) :
            /\ pc = "read"
            /\ fs = (PathDAT :> MkFile(t, len))
            /\ call = [op |-> "hsd_read", filepath |-> PathDAT, tile |-> t,
                       len |-> len, delete_dat |-> FALSE, debug |-> debug]
            /\ hs = None
            /\ err = ""
            /\ cursor = <<>>
            /\ pixels = <<>>

\* hsd_read(filepath, delete_dat, debug) as a whole
ReadTile ==
    /\ pc = "read"
    /\ \E r \in {hsd_read(fs, call.filepath, call.delete_dat, call.debug)} :
           /\ pc' = IF r.err = "" THEN "returned" ELSE "raised"
           /\ fs' = r.fs
           /\ hs' = r.rec
           /\ err' = r.err
           /\ cursor' = r.trace
    /\ UNCHANGED <<call, pixels>>

NextRead == ReadTile

SpecRead == InitRead /\ [][NextRead]_vars

(***************************************************************************)
(* calibration.py: hsd_calibration.                                        *)
(***************************************************************************)
\* the literal 1e-6 of lines 29 and 36
Micro == Fin(1, 1000000)

\* np.log of a float64: nan below zero, -inf at zero; ln(1) = 0; the logarithm of
\* any other positive number is kept as <<"ln", n, d>>
np_log(a) ==
    CASE a[1] = "fin" /\ a[2] < 0 -> NaN
      [] a[1] = "fin" /\ a[2] = 0 -> NInf
      [] a[1] = "fin" /\ a[2] = a[3] -> Zero
      [] a[1] = "fin" -> <<"ln", a[2], a[3]>>
      [] a[1] = "inf" -> PInf
      [] OTHER -> NaN

\* hc / l for l a value of np_log, as numpy divides: x / 0 = +-inf, 0 / 0 = nan
div_by_log(hc, l) ==
    CASE l[1] = "ln" ->
            LET sl == IF l[2] > l[3] THEN 1 ELSE -1
            IN  CASE IsFin(hc) /\ hc[2] = 0 -> Zero
                  [] IsFin(hc) -> <<"planck", hc[2], hc[3], l[2], l[3]>>
                  [] IsInf(hc) -> Signed(Sign(hc) * sl)
                  [] OTHER -> NaN
      [] OTHER -> NpDiv(hc, l)

\* lines 29-36: the constants of a record; raises on a zero divisor
cal_consts(rec) ==
    LET wl == FMul(rec.wavelength, Micro)
        wl5 == Pow5(wl)
        hc == FMul(rec.H, rec.c)
        kwl == FMul(rec.k, wl)
        h2cc == FMul(FMul(FMul(Int2F(2), rec.H), rec.c), rec.c)
    IN  IF PyDivRaises(hc, kwl) \/ PyDivRaises(h2cc, wl5)
        THEN [err |-> "ZeroDivisionError"]
        ELSE [err |-> "",
              hc_over_k_wl |-> PyDiv(hc, kwl),
              h2cc_over_wl5 |-> FMul(PyDiv(h2cc, wl5), Micro),
              slope |-> rec.slope, intc |-> rec.intc]

\* line 57: the radiance of a raw value
radiance_of(k, val) == FAdd(FMul(k.slope, Int2F(val)), k.intc)

\* line 61, inside np.log: the argument of the logarithm
log_arg(k, val) == FAdd(NpDiv(k.h2cc_over_wl5, radiance_of(k, val)), Int2F(1))

\* lines 57-61: the inverse Planck law for one raw value
planck(k, val) == div_by_log(k.hc_over_k_wl, np_log(log_arg(k, val)))

\* line 52: np.unique, the distinct values of the raster
unique(data) == {data[i] : i \in 1..Len(data)}

\* a table that keeps only the entry of the largest distinct value
lookup_table_last(k, data) ==
    [val \in {v \in unique(data) : \A u \in unique(data) : u <= v} |-> planck(k, val)]

\* lines 52-62: the lookup table, one entry per distinct value
lookup_table(k, data) == [val \in unique(data) |-> planck(k, val)]

\* an Optional[np.ndarray] field that is set: None otherwise
ndarray(a) == [array |-> a]

\* hsd_calibration: [err, temp]; the caller's record gets temp on success
hsd_calibration(rec, debug) ==
    LET k == cal_consts(rec)
        xy == rec.width * rec.height
        lut == lookup_table(k, rec.data)
    IN  IF k.err # "" THEN [err |-> k.err, temp |-> None]
        ELSE IF debug /\ Len(rec.data) = 0 THEN [err |-> "IndexError", temp |-> None]
        ELSE IF \E i \in 1..Len(rec.data) : rec.data[i] \notin DOMAIN lut
        THEN [err |-> "KeyError", temp |-> None]
        ELSE IF Len(rec.data) > xy THEN [err |-> "IndexError", temp |-> None]
        ELSE [err |-> "",
              temp |-> [i \in 1..xy |->
                           IF i <= Len(rec.data) THEN lut[rec.data[i]] ELSE Zero]]

(***************************************************************************)
(* SpecCal: hsd_calibration on one record.                                 *)
(***************************************************************************)
\* raw values around the count 1000 at which the radiance of CalGood is zero
RawValues == {996, 999, 1000, 1001}

RECURSIVE SeqsUpTo(_, _)
SeqsUpTo(S, n) ==
    IF n = 0 THEN {<<>>}
    ELSE LET shorter == SeqsUpTo(S, n - 1)
         IN  shorter \cup {Append(q, x) : q \in {r \in shorter : Len(r) = n - 1}, x \in S}

\* the constants a band above 6 carries, and the zeros of the other bands
CalGood == [c |-> Int2F(1), H |-> Int2F(1438), k |-> Int2F(1)]
CalNone == [c |-> Zero, H |-> Zero, k |-> Zero]

Record(band, wavelength, cal, data) ==
    [satellite_name |-> <<72, 56>>, width |-> Len(data), height |-> 1,
     band |-> band, wavelength |-> wavelength, bit_num |-> 11,
     slope |-> Fin(-1, 131072), intc |-> Fin(1000, 131072),
     c0 |-> Zero, c1 |-> Zero, c2 |-> Zero,
     c |-> cal.c, H |-> cal.H, k |-> cal.k,
     data |-> data, temp |-> None]

InitCal ==
    \E band \in {2, 5, 6, 7, 13}, data \in SeqsUpTo(RawValues, MaxPixels),
       wavelength \in {Int2F(1000000), Int2F(2000000), Zero, PInf, NaN},
       debug \in BOOLEAN :
        /\ pc = "calibrate"
        /\ fs = <<>>
        /\ call = [op |-> "hsd_calibration", debug |-> debug]
        /\ hs = Record(band, wavelength, IF band > 6 THEN CalGood ELSE CalNone, data)
        /\ err = ""
        /\ cursor = <<>>
        /\ pixels = <<>>

\* hsd_calibration(hs_data, debug) as a whole
Calibrate ==
    /\ pc = "calibrate"
    /\ \E r \in {hsd_calibration(hs, call.debug)} :
           /\ pc' = IF r.err = "" THEN "calibrated" ELSE "raised"
           /\ err' = r.err
           /\ hs' = IF r.err = "" THEN [hs EXCEPT !.temp = ndarray(r.temp)] ELSE hs
    /\ UNCHANGED <<fs, call, cursor, pixels>>

NextCal == Calibrate

SpecCal == InitCal /\ [][NextCal]_vars

(***************************************************************************)
(* colorscale.py: the colour ramps.  A temperature is a float; the value   *)
(* of the inverse Planck law is evaluated to centikelvins by a fixed-point *)
(* logarithm.  Arithmetic on temperatures is exact (float rounding is not  *)
(* modelled).                                                              *)
(***************************************************************************)
\* 2 * (y + y^3/3 + y^5/5 + ...) in units of 1/10000, y in units of 1/10000
RECURSIVE AtanhSeries(_, _, _, _)
AtanhSeries(term, y2, j, left) ==
    IF left = 0 THEN 0
    ELSE (2 * term) \div j + AtanhSeries((term * y2) \div 10000, y2, j + 2, left - 1)

\* ln(n/d) in units of 1/10000, for n, d > 0
RECURSIVE LnFix(_, _)
LnFix(n, d) ==
    IF n >= 32768 \/ d >= 32768 THEN LnFix(Max(1, n \div 2), Max(1, d \div 2))
    ELSE IF n >= 2 * d THEN 6931 + (IF d < 16384 THEN LnFix(n, 2 * d) ELSE LnFix(n \div 2, d))
    ELSE IF n < d THEN LnFix(2 * n, d) - 6931
    ELSE LET y == ((n - d) * 10000) \div (n + d)
         IN  AtanhSeries(y, (y * y) \div 10000, 1, LnTerms)

\* a float as a number the ramps compare: (hn/hd) / ln(an/ad) in centikelvins
kelvin(t) ==
    IF t[1] = "planck"
    THEN LET l == LnFix(t[4], t[5])
             q == t[2] * 10000
             dv == t[3] * l
         IN  IF l = 0 THEN Signed(Sign(Fin(t[2], t[3])))
             ELSE Fin(TruncDiv(q, dv) * 100 + TruncDiv((q - TruncDiv(q, dv) * dv) * 100, dv),
                      100)
    ELSE t

FNeg(x) ==
    CASE IsFin(x) -> Fin(-x[2], x[3])
      [] x = PInf -> NInf
      [] x = NInf -> PInf
      [] OTHER -> x
FSub(x, y) == FAdd(x, FNeg(y))

\* x > y and x <= y on floats: false when either is nan
FGt(x, y) ==
    CASE IsFin(x) /\ IsFin(y) -> x[2] * y[3] > y[2] * x[3]
      [] IsNaN(x) \/ IsNaN(y) \/ x[1] = "raw" \/ y[1] = "raw" -> FALSE
      [] OTHER -> Sign(x) > Sign(y) \/ (x = PInf /\ y # PInf) \/ (y = NInf /\ x # NInf)
FLe(x, y) ==
    CASE IsFin(x) /\ IsFin(y) -> x[2] * y[3] <= y[2] * x[3]
      [] IsNaN(x) \/ IsNaN(y) \/ x[1] = "raw" \/ y[1] = "raw" -> FALSE
      [] OTHER -> ~FGt(x, y)

\* a literal of colorscale.py with two decimals, and one with a single decimal
K(centi) == Fin(centi, 100)
D(deci) == Fin(deci, 10)

\* the integer a finite float truncates to
Trunc(x) == TruncDiv(x[2], x[3])

\* ndarray.astype(np.uint8) of a float64: the truncated value when it is in
\* 0..255; out of that range the C cast is undefined, and the outcomes are the
\* value wrapped modulo 256, 0 and 255
astype_uint8(x) ==
    IF IsFin(x) /\ Trunc(x) >= 0 /\ Trunc(x) <= 255 THEN {Trunc(x)}
    ELSE IF IsFin(x) THEN {Trunc(x) % 256, 0, 255}
    ELSE {0, 255}

\* valid_mask & (temp_array > lo) & (temp_array <= hi), and its two open ends
Valid(t) == FGt(t, Zero)
Above(t, lo) == Valid(t) /\ FGt(t, K(lo))
Within(t, lo, hi) == Valid(t) /\ FGt(t, K(lo)) /\ FLe(t, K(hi))
UpTo(t, hi) == Valid(t) /\ FLe(t, K(hi))

\* (a - t) * m + b and (t - a) * m + b
Down(a, t, m, b) == FAdd(FMul(FSub(K(a), t), m), Int2F(b))
Up(t, a, m, b) == FAdd(FMul(FSub(t, K(a)), m), Int2F(b))

\* bw_scale: (data >> shift).astype(np.uint8) on all three channels
bw_scale(data, bit_num) ==
    LET shift == IF bit_num > 8 THEN bit_num - 8 ELSE 0
        gray(v) == IF shift >= 16 THEN 0 ELSE (v \div Pow(2, shift)) % 256
    IN  [i \in 1..Len(data) |-> <<gray(data[i]), gray(data[i]), gray(data[i])>>]

\* bd_scale_value: the scalar BD ramp
bd_scale_value(temp) ==
    LET t == kelvin(temp)
    IN  IF FGt(t, K(30315)) THEN 0
        ELSE IF FGt(t, K(28215)) THEN Trunc(Down(30315, t, Int2F(12), 0))
        ELSE IF FGt(t, K(24215)) THEN Trunc(Down(28215, t, Int2F(2), 100))
        ELSE IF FGt(t, K(23115)) THEN 80
        ELSE IF FGt(t, K(21915)) THEN 130
        ELSE IF FGt(t, K(20915)) THEN 190
        ELSE IF FGt(t, K(20315)) THEN 0
        ELSE IF FGt(t, K(19715)) THEN 255
        ELSE IF FGt(t, K(19215)) THEN 170
        ELSE 120

\* a BD ramp whose bands are closed below and open above
bd_value_closed(temp) ==
    LET t == kelvin(temp)
        In(lo, hi) == Valid(t) /\ FLe(K(lo), t) /\ FGt(K(hi), t)
    IN  CASE Valid(t) /\ FLe(K(30315), t) -> {0}
          [] In(28215, 30315) -> astype_uint8(Down(30315, t, Int2F(12), 0))
          [] In(24215, 28215) -> astype_uint8(Down(28215, t, Int2F(2), 100))
          [] In(23115, 24215) -> {80}
          [] In(21915, 23115) -> {130}
          [] In(20915, 21915) -> {190}
          [] In(20315, 20915) -> {0}
          [] In(19715, 20315) -> {255}
          [] In(19215, 19715) -> {170}
          [] Valid(t) /\ FGt(K(19215), t) -> {120}
          [] OTHER -> {0}

\* a BD ramp whose first linear band climbs by 13 per kelvin
bd_value_steep(temp) ==
    LET t == kelvin(temp)
    IN  CASE Above(t, 30315) -> {0}
          [] Within(t, 28215, 30315) -> astype_uint8(Down(30315, t, Int2F(13), 0))
          [] Within(t, 24215, 28215) -> astype_uint8(Down(28215, t, Int2F(2), 100))
          [] Within(t, 23115, 24215) -> {80}
          [] Within(t, 21915, 23115) -> {130}
          [] Within(t, 20915, 21915) -> {190}
          [] Within(t, 20315, 20915) -> {0}
          [] Within(t, 19715, 20315) -> {255}
          [] Within(t, 19215, 19715) -> {170}
          [] UpTo(t, 19215) -> {120}
          [] OTHER -> {0}

\* bd_scale, one element: the values result[i] can take
bd_value(temp) ==
    LET t == kelvin(temp)
    IN  CASE Above(t, 30315) -> {0}
          [] Within(t, 28215, 30315) -> astype_uint8(Down(30315, t, Int2F(12), 0))
          [] Within(t, 24215, 28215) -> astype_uint8(Down(28215, t, Int2F(2), 100))
          [] Within(t, 23115, 24215) -> {80}
          [] Within(t, 21915, 23115) -> {130}
          [] Within(t, 20915, 21915) -> {190}
          [] Within(t, 20315, 20915) -> {0}
          [] Within(t, 19715, 20315) -> {255}
          [] Within(t, 19215, 19715) -> {170}
          [] UpTo(t, 19215) -> {120}
          [] OTHER -> {0}

color2_r(temp) ==
    LET t == kelvin(temp)
    IN  CASE Above(t, 30315) -> {0}
          [] Within(t, 24315, 30315) -> astype_uint8(Down(30315, t, Int2F(4), 0))
          [] Within(t, 22315, 24315) -> {50}
          [] Within(t, 20315, 22315) -> {0}
          [] Within(t, 19315, 20315) -> astype_uint8(Down(20315, t, Int2F(15), 100))
          [] Within(t, 18315, 19315) -> astype_uint8(Up(t, 18315, Int2F(25), 0))
          [] UpTo(t, 18315) -> astype_uint8(Up(t, 17315, Int2F(25), 0))
          [] OTHER -> {0}

color2_g(temp) ==
    LET t == kelvin(temp)
    IN  CASE Above(t, 30315) -> {0}
          [] Within(t, 24315, 30315) -> astype_uint8(Down(30315, t, Int2F(4), 0))
          [] Within(t, 22315, 24315) -> astype_uint8(Up(t, 22315, Int2F(6), 120))
          [] Within(t, 21315, 22315) -> {0}
          [] Within(t, 20315, 21315) -> astype_uint8(Down(21315, t, Int2F(15), 100))
          [] Within(t, 19315, 20315) -> {0}
          [] Within(t, 18315, 19315) -> astype_uint8(Up(t, 18315, Int2F(25), 0))
          [] UpTo(t, 18315) -> astype_uint8(Up(t, 17315, Int2F(25), 0))
          [] OTHER -> {0}

color2_b(temp) ==
    LET t == kelvin(temp)
    IN  CASE Above(t, 30315) -> {0}
          [] Within(t, 24315, 30315) -> astype_uint8(Down(30315, t, Int2F(4), 0))
          [] Within(t, 22315, 24315) -> astype_uint8(Up(t, 22315, Int2F(6), 120))
          [] Within(t, 21315, 22315) -> astype_uint8(Down(22315, t, Int2F(15), 100))
          [] Within(t, 18315, 21315) -> {0}
          [] UpTo(t, 18315) -> astype_uint8(Up(t, 17315, Int2F(25), 0))
          [] OTHER -> {0}

\* a red channel that starts at 128 everywhere
wvnrl_r_unreset(t) == 128

\* np.full(128) followed by result[~valid_mask] = 0
wvnrl_r_start(t) == IF ~Valid(t) THEN 0 ELSE 128

\* lines 195-206: the values the masked assignments give the element, {} when no
\* mask matches it
wvnrl_r_assigned(t) ==
    CASE Above(t, 27315) -> {127}
      [] Within(t, 26315, 27315) -> astype_uint8(Up(t, 26315, D(108), 20))
      [] Within(t, 25315, 26315) -> astype_uint8(Down(26315, t, Int2F(3), 20))
      [] Within(t, 24315, 25315) -> astype_uint8(Down(25315, t, D(78), 50))
      [] Within(t, 23315, 24315) ->
            astype_uint8(FMul(FSub(FAdd(Int2F(127), K(24315)), t), D(128)))
      [] Within(t, 22315, 23315) -> {255}
      [] UpTo(t, 22315) -> astype_uint8(Up(t, 20315, D(64), 127))
      [] OTHER -> {}

wvnrl_r(temp) ==
    LET t == kelvin(temp)
    IN  IF wvnrl_r_assigned(t) = {} THEN {wvnrl_r_start(t)} ELSE wvnrl_r_assigned(t)

wvnrl_g(temp) ==
    LET t == kelvin(temp)
    IN  CASE Above(t, 27315) -> {0}
          [] Within(t, 26315, 27315) -> astype_uint8(Down(27315, t, Int2F(10), 0))
          [] Within(t, 25315, 26315) -> astype_uint8(Down(26315, t, Int2F(5), 100))
          [] Within(t, 24315, 25315) -> astype_uint8(Down(25315, t, D(105), 150))
          [] Within(t, 23315, 24315) -> {255}
          [] Within(t, 22315, 23315) -> astype_uint8(Up(t, 22315, D(75), 180))
          [] UpTo(t, 22315) -> astype_uint8(Up(t, 20315, Int2F(9), 0))
          [] OTHER -> {0}

wvnrl_b(temp) ==
    LET t == kelvin(temp)
    IN  CASE Above(t, 27315) -> {140}
          [] Within(t, 26315, 27315) -> astype_uint8(Down(27315, t, Int2F(9), 140))
          [] Within(t, 25315, 26315) -> astype_uint8(Down(26315, t, D(25), 230))
          [] Within(t, 24315, 25315) -> {255}
          [] Within(t, 23315, 24315) -> astype_uint8(Up(t, 23315, D(128), 127))
          [] Within(t, 22315, 23315) -> astype_uint8(Up(t, 22315, D(28), 100))
          [] UpTo(t, 22315) -> astype_uint8(Up(t, 20315, Int2F(5), 0))
          [] OTHER -> {0}

\* the sequences whose element i is drawn from sets[i]
RECURSIVE SeqProduct(_)
SeqProduct(sets) ==
    IF sets = <<>> THEN {<<>>}
    ELSE {<<x>> \o q : x \in Head(sets), q \in SeqProduct(Tail(sets))}

\* np.stack([result, result, result], axis=-1): one value on the three channels
bd_scale(temp_array) ==
    SeqProduct([i \in 1..Len(temp_array) |->
                   {<<v, v, v>> : v \in bd_value(temp_array[i])}])

\* np.stack([r, g, b], axis=-1)
color2_scale(temp_array) ==
    SeqProduct([i \in 1..Len(temp_array) |->
                   color2_r(temp_array[i]) \X color2_g(temp_array[i])
                       \X color2_b(temp_array[i])])

wvnrl_scale(temp_array) ==
    SeqProduct([i \in 1..Len(temp_array) |->
                   wvnrl_r(temp_array[i]) \X wvnrl_g(temp_array[i])
                       \X wvnrl_b(temp_array[i])])

(***************************************************************************)
(* SpecRamp: one temperature-keyed ramp on one temperature field.          *)
(***************************************************************************)
\* temperatures on both sides of the thresholds, the sentinel 0 K, and the values
\* that are not numbers
Temps ==
    {Zero, NaN, PInf, K(15000), K(19715), K(22315), K(23815), K(24315), K(26000),
     K(28215), K(30315), K(30316)}

InitRamp ==
    \E ramp \in {"bd", "color2", "wvnrl"}, temp \in SeqsUpTo(Temps, MaxPixels) :
        /\ pc = "colormap"
        /\ fs = <<>>
        /\ call = [op |-> ramp, temp |-> temp]
        /\ hs = None
        /\ err = ""
        /\ cursor = <<>>
        /\ pixels = <<>>

ramp_scale(ramp, temp_array) ==
    CASE ramp = "bd" -> bd_scale(temp_array)
      [] ramp = "color2" -> color2_scale(temp_array)
      [] ramp = "wvnrl" -> wvnrl_scale(temp_array)

\* bd_scale / color2_scale / wvnrl_scale (temp_array) as a whole
ApplyRamp ==
    /\ pc = "colormap"
    /\ pixels' \in ramp_scale(call.op, call.temp)
    /\ pc' = "mapped"
    /\ UNCHANGED <<fs, call, hs, err, cursor>>

NextRamp == ApplyRamp

SpecRamp == InitRamp /\ [][NextRamp]_vars

(***************************************************************************)
(* SpecScale: one colour scale on one element: a temperature for the three *)
(* temperature ramps and for bd_scale_value, a raw sample and a bit depth  *)
(* for bw_scale.                                                           *)
(***************************************************************************)
\* the thresholds of the three ramps, in centikelvins
BDThresholds == {30315, 28215, 24215, 23115, 21915, 20915, 20315, 19715, 19215}
Color2Thresholds == {30315, 24315, 22315, 21315, 20315, 19315, 18315}
WVThresholds == {27315, 26315, 25315, 24315, 23315, 22315}

\* every threshold, the temperature 0.01 K above it, temperatures inside the
\* bands, and the values that are not temperatures
ScaleTemps ==
    {K(c + d) : c \in BDThresholds \cup Color2Thresholds \cup WVThresholds, d \in {0, 1}}
        \cup {K(c) : c \in {-500, 1, 15000, 17315, 20000, 29000, 40000}}
        \cup {Zero, NaN, PInf, NInf}

\* raw samples and bit depths on both sides of the 8-bit and 16-bit limits
ScaleSamples == {0, 255, 256, 2047, 2048, 8191, 65534, 65535}
ScaleDepths == {0, 7, 8, 9, 11, 16, 23, 24, 65535}

InitScale ==
    /\ pc = "scale"
    /\ fs = <<>>
    /\ hs = None
    /\ err = ""
    /\ cursor = <<>>
    /\ pixels = <<>>
    /\ \/ \E op \in {"bd", "color2", "wvnrl", "bd_scale_value"}, temp \in ScaleTemps :
            call = [op |-> op, temp |-> temp]
       \/ \E s \in ScaleSamples, b \in ScaleDepths :
            call = [op |-> "bw_scale", data |-> <<s>>, bit_num |-> b]

\* bd_scale / color2_scale / wvnrl_scale on the one-element field
ScaleTemp ==
    /\ pc = "scale"
    /\ call.op \in {"bd", "color2", "wvnrl"}
    /\ pixels' \in ramp_scale(call.op, <<call.temp>>)
    /\ pc' = "scaled"
    /\ UNCHANGED <<fs, call, hs, err, cursor>>

\* bd_scale_value(temp): pixels is the integer it returns
ScaleValue ==
    /\ pc = "scale"
    /\ call.op = "bd_scale_value"
    /\ pixels' = bd_scale_value(call.temp)
    /\ pc' = "scaled"
    /\ UNCHANGED <<fs, call, hs, err, cursor>>

\* bw_scale(data, bit_num)
ScaleRaw ==
    /\ pc = "scale"
    /\ call.op = "bw_scale"
    /\ pixels' = bw_scale(call.data, call.bit_num)
    /\ pc' = "scaled"
    /\ UNCHANGED <<fs, call, hs, err, cursor>>

NextScale == ScaleTemp \/ ScaleValue \/ ScaleRaw

SpecScale == InitScale /\ [][NextScale]_vars

(***************************************************************************)
(* segment_merger.py: the segment stitcher.  An Optional[int] is <<>> for  *)
(* None and <<n>> for n.                                                   *)
(***************************************************************************)
\* re.search(r'_S(\d{2})10', filepath): the token's last two digits are "10"
parse_segment_number(filepath) ==
    IF Len(filepath.tok) = 4 /\ filepath.tok[3] = 1 /\ filepath.tok[4] = 0
    THEN <<10 * filepath.tok[1] + filepath.tok[2]>>
    ELSE <<>>

\* re.sub(r'_S\d{4}', '_S{:02d}10', filepath).format(seg_num): a name without the
\* token is left as it is
segment_path(filepath, seg_num) ==
    IF Len(filepath.tok) = 4
    THEN [filepath EXCEPT !.tok = <<seg_num \div 10, seg_num % 10, 1, 0>>]
    ELSE filepath

\* a search that puts each later segment before the earlier ones
RECURSIVE segments_from_reversed(_, _, _)
segments_from_reversed(F, filepath, seg_num) ==
    IF seg_num > 10 THEN <<>>
    ELSE LET segment_path_ == segment_path(filepath, seg_num)
             found == IF exists(F, segment_path_) THEN <<segment_path_>>
                      ELSE IF segment_path_.bz /\ exists(F, strip_bz2(segment_path_))
                      THEN <<strip_bz2(segment_path_)>>
                      ELSE <<>>
         IN  segments_from_reversed(F, filepath, seg_num + 1) \o found

\* lines 52-62, for seg_num and the segments after it
RECURSIVE segments_from(_, _, _)
segments_from(F, filepath, seg_num) ==
    IF seg_num > 10 THEN <<>>
    ELSE LET segment_path_ == segment_path(filepath, seg_num)
             found == IF exists(F, segment_path_) THEN <<segment_path_>>
                      ELSE IF segment_path_.bz /\ exists(F, strip_bz2(segment_path_))
                      THEN <<strip_bz2(segment_path_)>>
                      ELSE <<>>
         IN  found \o segments_from(F, filepath, seg_num + 1)

find_all_segments(F, filepath) == segments_from(F, filepath, 1)

\* a reading loop without the width check of lines 98-101
RECURSIVE read_segments_unchecked(_, _, _)
read_segments_unchecked(acc, segment_files, delete_dat) ==
    IF segment_files = <<>> \/ acc.err # "" THEN acc
    ELSE LET step(r) ==
                 IF r.err # "" THEN [acc EXCEPT !.err = r.err, !.fs = r.fs]
                 ELSE [acc EXCEPT !.fs = r.fs, !.segs = Append(@, r.rec)]
         IN  With(With(hsd_read(acc.fs, Head(segment_files), delete_dat, FALSE), step),
                  LAMBDA nxt : read_segments_unchecked(nxt, Tail(segment_files), delete_dat))

\* lines 90-103: read the segments in order; [err, fs, segs], stopping at the
\* first read that raises or the first width that differs from the first one's
RECURSIVE read_segments(_, _, _)
read_segments(acc, segment_files, delete_dat) ==
    IF segment_files = <<>> \/ acc.err # "" THEN acc
    ELSE LET step(r) ==
                 IF r.err # "" THEN [acc EXCEPT !.err = r.err, !.fs = r.fs]
                 ELSE IF acc.segs # <<>> /\ acc.segs[1].width # r.rec.width
                 THEN [acc EXCEPT !.err = "ValueError", !.fs = r.fs]
                 ELSE [acc EXCEPT !.fs = r.fs, !.segs = Append(@, r.rec)]
         IN  With(With(hsd_read(acc.fs, Head(segment_files), delete_dat, FALSE), step),
                  LAMBDA nxt : read_segments(nxt, Tail(segment_files), delete_dat))

\* a height that counts the rows of the first tile only
total_height_first(segs) == IF segs = <<>> THEN 0 ELSE Head(segs).height

RECURSIVE total_height(_)
total_height(segs) == IF segs = <<>> THEN 0 ELSE Head(segs).height + total_height(Tail(segs))

\* a joining that puts each later tile above the earlier ones
RECURSIVE concatenate_reversed(_)
concatenate_reversed(segs) ==
    IF segs = <<>> THEN <<>> ELSE concatenate_reversed(Tail(segs)) \o Head(segs).data

\* np.concatenate([seg.data for seg in segments_data])
RECURSIVE concatenate(_)
concatenate(segs) == IF segs = <<>> THEN <<>> ELSE Head(segs).data \o concatenate(Tail(segs))

\* a merge that takes the last tile as the base of the record
merge_segments_last_base(F, segment_files, delete_dat, debug) ==
    LET merged(r) ==
            IF r.err # "" THEN [err |-> r.err, rec |-> None, fs |-> r.fs]
            ELSE [err |-> "", fs |-> r.fs,
                  rec |-> [r.segs[Len(r.segs)] EXCEPT !.width = r.segs[1].width,
                                                       !.height = total_height(r.segs),
                                                       !.data = concatenate(r.segs)]]
    IN  IF segment_files = <<>> THEN [err |-> "ValueError", rec |-> None, fs |-> F]
        ELSE With(read_segments([err |-> "", fs |-> F, segs |-> <<>>],
                                segment_files, delete_dat), merged)

\* merge_segments: [err, rec, fs]
merge_segments(F, segment_files, delete_dat, debug) ==
    LET merged(r) ==
            IF r.err # "" THEN [err |-> r.err, rec |-> None, fs |-> r.fs]
            ELSE [err |-> "", fs |-> r.fs,
                  rec |-> [r.segs[1] EXCEPT !.height = total_height(r.segs),
                                            !.data = concatenate(r.segs)]]
    IN  IF segment_files = <<>> THEN [err |-> "ValueError", rec |-> None, fs |-> F]
        ELSE With(read_segments([err |-> "", fs |-> F, segs |-> <<>>],
                                segment_files, delete_dat), merged)

\* a read_hsd_full that hands a single discovered segment to merge_segments
read_hsd_full_merging_one(F, filepath, delete_dat, debug, auto_merge) ==
    LET one == With(hsd_read(F, filepath, delete_dat, debug),
                    LAMBDA r : [err |-> r.err, rec |-> r.rec, fs |-> r.fs])
        merged(all_segments) ==
            IF Len(all_segments) = 0 THEN one
            ELSE merge_segments(F, all_segments, delete_dat, debug)
    IN  IF ~auto_merge THEN one
        ELSE IF parse_segment_number(filepath) = <<>> THEN one
        ELSE With(find_all_segments(F, filepath), merged)

\* read_hsd_full: [err, rec, fs]
read_hsd_full(F, filepath, delete_dat, debug, auto_merge) ==
    LET one == With(hsd_read(F, filepath, delete_dat, debug),
                    LAMBDA r : [err |-> r.err, rec |-> r.rec, fs |-> r.fs])
        merged(all_segments) ==
            IF Len(all_segments) = 0 THEN one
            ELSE IF Len(all_segments) = 1 THEN one
            ELSE merge_segments(F, all_segments, delete_dat, debug)
    IN  IF ~auto_merge THEN one
        ELSE IF parse_segment_number(filepath) = <<>> THEN one
        ELSE With(find_all_segments(F, filepath), merged)

(***************************************************************************)
(* main.py: hsd_render.  The pipeline is one call; pc is the statement it  *)
(* is at.  The output path computed at line 74 does not touch the files    *)
(* the pipeline reads and is left out.                                     *)
(***************************************************************************)
\* a calibration decision that also takes band 3
needs_calibration_from3(band) == band > 2

\* line 84: if hs_data.band > 3
needs_calibration(band) == band > 3

\* lines 90-102: the pixel buffers the colour mapping can produce
color_map(rec, color) ==
    IF needs_calibration(rec.band)
    THEN CASE color = 1 -> bd_scale(rec.temp.array)
           [] color = 2 -> color2_scale(rec.temp.array)
           [] color = 3 -> wvnrl_scale(rec.temp.array)
           [] OTHER -> {bw_scale(rec.data, rec.bit_num)}
    ELSE {bw_scale(rec.data, rec.bit_num)}

\* pixels.reshape(height, width, 3): row r holds the pixels r*width+1 .. (r+1)*width
reshape(px, height, width) ==
    [r \in 1..height |-> [x \in 1..width |-> px[(r - 1) * width + x]]]

\* the path of segment n of 10, as a .DAT or a .DAT.bz2 name
Seg(n, bz) == [tok |-> <<n \div 10, n % 10, 1, 0>>, bz |-> bz]

InitRender ==
    \E wh \in Dims, band \in {1, 3, 4, 6, 7}, rad \in Radiometry, color \in 0..3,
       bz \in BOOLEAN, delete_dat \in BOOLEAN, sibling \in {"none", "same", "wider"} :
      LET t1 == Tile(wh, band, rad, 2, 2, 0, <<72, 56>>, 0)
          t2 == Tile(IF sibling = "wider" THEN <<wh[1] + 1, wh[2]>> ELSE wh,
                     band, rad, 2, 2, 0, <<72, 56>>, 1)
          disk == [p \in {Seg(n, b) : n \in 1..2, b \in BOOLEAN} |->
                     IF p = Seg(1, bz) THEN MkFile(t1, FullLen(t1))
                     ELSE IF p = Seg(2, FALSE) /\ sibling # "none"
                     THEN MkFile(t2, FullLen(t2))
                     ELSE None]
      IN  /\ pc = "render_read"
          /\ fs = disk
          /\ call = [op |-> "hsd_render", filepath |-> Seg(1, bz), color |-> color,
                     delete_dat |-> delete_dat, disk |-> disk]
          /\ hs = None
          /\ err = ""
          /\ cursor = <<>>
          /\ pixels = <<>>

\* line 77: hs_data = hsd_read(filepath, delete_dat=delete_dat, debug=True)
RenderRead ==
    /\ pc = "render_read"
    /\ \E r \in {hsd_read(fs, call.filepath, call.delete_dat, TRUE)} :
           /\ pc' = IF r.err # "" THEN "raised"
                    ELSE IF needs_calibration(r.rec.band) THEN "render_calibrate"
                    ELSE "render_colormap"
           /\ fs' = r.fs
           /\ hs' = r.rec
           /\ err' = r.err
           /\ cursor' = r.trace
    /\ UNCHANGED <<call, pixels>>

\* line 87: hsd_calibration(hs_data, debug=True)
RenderCalibrate ==
    /\ pc = "render_calibrate"
    /\ \E r \in {hsd_calibration(hs, TRUE)} :
           /\ pc' = IF r.err = "" THEN "render_colormap" ELSE "raised"
           /\ err' = r.err
           /\ hs' = IF r.err = "" THEN [hs EXCEPT !.temp = ndarray(r.temp)] ELSE hs
    /\ UNCHANGED <<fs, call, cursor, pixels>>

\* lines 90-102: the colour scale
RenderColorMap ==
    /\ pc = "render_colormap"
    /\ pixels' \in color_map(hs, call.color)
    /\ pc' = "render_save"
    /\ UNCHANGED <<fs, call, hs, err, cursor>>

\* lines 108-110: reshape and save
RenderSave ==
    /\ pc = "render_save"
    /\ IF Len(pixels) = hs.height * hs.width
       THEN /\ pixels' = reshape(pixels, hs.height, hs.width)
            /\ pc' = "saved"
            /\ err' = err
       ELSE /\ pixels' = pixels
            /\ pc' = "raised"
            /\ err' = "ValueError"
    /\ UNCHANGED <<fs, call, hs, cursor>>

Next == RenderRead \/ RenderCalibrate \/ RenderColorMap \/ RenderSave

Spec == InitRender /\ [][Next]_vars

(***************************************************************************)
(* SpecMerge: the operations of the segment stitcher, and hsd_read, on a   *)
(* directory of up to three sibling tiles.                                 *)
(***************************************************************************)
\* a name without a segment token, and one whose token does not end in "10"
Plain == [tok |-> <<>>, bz |-> FALSE]
Odd == [tok |-> <<0, 1, 2, 0>>, bz |-> FALSE]

\* tile j of a directory: every tile has metadata of its own; the tile numbered
\* misfit (if any) is one pixel wider than the others.  The file named Odd lacks
\* its last byte in the directories of two-pixel tiles.
SiblingTile(j, w, heights, misfit) ==
    Tile(<<IF j = misfit THEN w + 1 ELSE w, heights[j]>>,
         <<7, 3, 13>>[j],
         IF j = 2 THEN CHOOSE rad \in Radiometry : rad.k = Zero
         ELSE CHOOSE rad \in Radiometry : rad.k # Zero,
         2, 2, 0, <<<<72, 56>>, <<71, 79, 69, 83>>, <<72, 57>>>>[j], j - 1)

\* the form (.DAT or .DAT.bz2) in which segment j is looked up
Form(j, present) == Seg(j, present[j] = "bz2")

InitMerge ==
    \E geometry \in {<<1, <<1, 1, 1>>>>, <<2, <<2, 1, 0>>>>, <<1, <<0, 2, 1>>>>},
       misfit \in {0, 2, 3},
       present \in {"dat", "bz2", "none"} \X {"dat", "bz2", "none"} \X {"dat", "none"} :
      LET tile(j) == SiblingTile(j, geometry[1], geometry[2], misfit)
          file(j) == MkFile(tile(j), FullLen(tile(j)))
          paths == {Seg(n, b) : n \in 1..3, b \in BOOLEAN} \cup {Plain, Odd}
          number(p) == IF p = Plain THEN 1 ELSE IF p = Odd THEN 2
                       ELSE 10 * p.tok[1] + p.tok[2]
          held(p) == \/ p \in {Plain, Odd}
                     \/ (p = Form(number(p), present) /\ present[number(p)] # "none")
          disk == [p \in paths |->
                     IF p = Odd /\ geometry[1] = 2
                     THEN MkFile(tile(2), FullLen(tile(2)) - 1)
                     ELSE IF held(p) THEN file(number(p)) ELSE None]
          tiles == [p \in paths |-> IF held(p) THEN tile(number(p)) ELSE None]
          A(j) == Form(j, present)
          inputs == {Seg(1, FALSE), Seg(1, TRUE), Seg(2, FALSE), Plain, Odd}
      IN  /\ fs = disk
          /\ hs = None
          /\ err = ""
          /\ cursor = <<>>
          /\ pixels = <<>>
          /\ \/ /\ pc = "merge"
                /\ \E files \in {<<>>, <<A(1)>>, <<A(1), A(2)>>, <<A(2), A(1)>>,
                                 <<A(1), A(2), A(3)>>, <<Plain, Plain>>},
                      delete_dat \in BOOLEAN :
                     call = [op |-> "merge_segments", segment_files |-> files,
                             delete_dat |-> delete_dat, debug |-> FALSE,
                             disk |-> disk, tiles |-> tiles]
             \/ /\ pc = "read_full"
                /\ \E filepath \in inputs,
                      flags \in {<<TRUE, FALSE, FALSE>>, <<TRUE, TRUE, FALSE>>,
                                 <<TRUE, FALSE, TRUE>>, <<FALSE, FALSE, FALSE>>} :
                     call = [op |-> "read_hsd_full", filepath |-> filepath,
                             auto_merge |-> flags[1], debug |-> flags[2],
                             delete_dat |-> flags[3], disk |-> disk, tiles |-> tiles]
             \/ /\ pc = "find"
                /\ \E filepath \in inputs :
                     call = [op |-> "find_all_segments", filepath |-> filepath,
                             disk |-> disk, tiles |-> tiles]
             \/ /\ pc = "read"
                /\ \E filepath \in inputs, delete_dat \in BOOLEAN :
                     call = [op |-> "hsd_read", filepath |-> filepath,
                             delete_dat |-> delete_dat, debug |-> FALSE,
                             disk |-> disk, tiles |-> tiles]

\* merge_segments(segment_files, delete_dat, debug) as a whole
MergeSegments ==
    /\ pc = "merge"
    /\ \E r \in {merge_segments(fs, call.segment_files, call.delete_dat, call.debug)} :
           /\ pc' = IF r.err = "" THEN "returned" ELSE "raised"
           /\ fs' = r.fs
           /\ hs' = r.rec
           /\ err' = r.err
    /\ UNCHANGED <<call, cursor, pixels>>

\* read_hsd_full(filepath, delete_dat, debug, auto_merge) as a whole
ReadFull ==
    /\ pc = "read_full"
    /\ \E r \in {read_hsd_full(fs, call.filepath, call.delete_dat, call.debug,
                               call.auto_merge)} :
           /\ pc' = IF r.err = "" THEN "returned" ELSE "raised"
           /\ fs' = r.fs
           /\ hs' = r.rec
           /\ err' = r.err
    /\ UNCHANGED <<call, cursor, pixels>>

\* find_all_segments(filepath): hs holds the list it returns
FindSegments ==
    /\ pc = "find"
    /\ hs' = [segments |-> find_all_segments(fs, call.filepath)]
    /\ pc' = "returned"
    /\ UNCHANGED <<fs, call, err, cursor, pixels>>

NextMerge == MergeSegments \/ ReadFull \/ FindSegments \/ ReadTile

SpecMerge == InitMerge /\ [][NextMerge]_vars

(***************************************************************************)
(* SpecDisk: hsd_read on a directory that holds a compressed container, an *)
(* extracted .DAT of the same base name, both or neither.  The .DAT is the *)
(* extraction of the .bz2 ("same"), the extraction cut one byte short      *)
(* ("short") or another container ("stale").                               *)
(***************************************************************************)
PathBZ2 == Seg(1, TRUE)
PathExtracted == Seg(1, FALSE)

InitDisk ==
    \E wh \in Dims, bz2 \in BOOLEAN, dat \in {"none", "same", "short", "stale"},
       given \in {PathBZ2, PathExtracted}, delete_dat \in BOOLEAN, debug \in BOOLEAN :
      LET packed == Tile(wh, 7, CHOOSE rad \in Radiometry : rad.k # Zero,
                         2, 2, 0, <<72, 56>>, 0)
          other == Tile(<<1, 1>>, 3, CHOOSE rad \in Radiometry : rad.k = Zero,
                        2, 2, 0, <<71, 79, 69, 83>>, 1)
          disk == (PathBZ2 :> (IF bz2 THEN MkFile(packed, FullLen(packed)) ELSE None))
                  @@ (PathExtracted :>
                         CASE dat = "same" -> MkFile(packed, FullLen(packed))
                           [] dat = "short" -> MkFile(packed, Max(0, FullLen(packed) - 1))
                           [] dat = "stale" -> MkFile(other, FullLen(other))
                           [] OTHER -> None)
      IN  /\ pc = "read"
          /\ fs = disk
          /\ call = [op |-> "hsd_read", filepath |-> given, delete_dat |-> delete_dat,
                     debug |-> debug, disk |-> disk, dat |-> dat]
          /\ hs = None
          /\ err = ""
          /\ cursor = <<>>
          /\ pixels = <<>>

NextDisk == ReadTile

SpecDisk == InitDisk /\ [][NextDisk]_vars

(***************************************************************************)
(* SpecName: parse_segment_number on the names of the model: every token   *)
(* of two digits followed by 00, 01, 10, 11, 20 or 21, and no token.       *)
(***************************************************************************)
Names ==
    {[tok |-> <<d1, d2, d3, d4>>, bz |-> bz] :
         d1 \in 0..9, d2 \in 0..9, d3 \in 0..2, d4 \in 0..1, bz \in BOOLEAN}
    \cup {[tok |-> <<>>, bz |-> bz] : bz \in BOOLEAN}

InitName ==
    \E filepath \in Names :
        /\ pc = "parse"
        /\ fs = <<>>
        /\ call = [op |-> "parse_segment_number", filepath |-> filepath]
        /\ hs = None
        /\ err = ""
        /\ cursor = <<>>
        /\ pixels = <<>>

\* parse_segment_number(filepath): hs holds the value it returns
ParseName ==
    /\ pc = "parse"
    /\ hs' = [seg_num |-> parse_segment_number(call.filepath)]
    /\ pc' = "returned"
    /\ UNCHANGED <<fs, call, err, cursor, pixels>>

NextName == ParseName

SpecName == InitName /\ [][NextName]_vars

(***************************************************************************)
(* Claims about the decoder (SpecRead).                                    *)
(***************************************************************************)
Range(s) == {s[i] : i \in 1..Len(s)}

\* the container f with its band field (2 bytes at offset 601) overwritten
WithBand(f, b) == [f EXCEPT !.fld = At(601, pack_H(b)) @@ @]

\* the offset at which hsd_read starts reading the payload: the cursor position
\* before the last read
PayloadStart == cursor[Len(cursor) - 1]

\* C1: two containers that differ only in the band field (one band <= 6, one > 6)
\* are walked to the same payload offset, and in both the cursor is at offset 633
\* before the branch on the band and at 633 + 112 after it.
C1_SamePayloadOffset ==
    pc = "returned" =>
        \A b \in {3, 6, 7, 263} :
            LET w == hsd_walk(WithBand(fs[call.filepath], b))
            IN  /\ w.err = ""
                /\ w.pos = PayloadStart
                /\ {633, 633 + 112} \subseteq Range(w.trace)
                /\ \A p \in Range(w.trace) : p <= 633 \/ p >= 633 + 112 \/ b > 6

C1_Witness ==
    /\ pc = "returned"
    /\ hs.band > 6
    /\ Len(hs.data) > 0
    /\ hsd_walk(WithBand(fs[call.filepath], 3)).pos = PayloadStart

\* the container is whole and its length blocks count their own length field
WellFormed ==
    /\ call.len >= FullLen(call.tile)
    /\ call.tile.len8 >= 2
    /\ call.tile.len9 >= 2

FieldsRecovered ==
    LET t == call.tile
    IN  /\ hs.satellite_name = t.text
        /\ hs.width = t.width /\ hs.height = t.height
        /\ hs.band = t.band /\ hs.wavelength = t.wavelength
        /\ hs.bit_num = t.bit_num
        /\ hs.slope = t.slope /\ hs.intc = t.intc
        /\ (t.band > 6 =>
               /\ hs.c0 = t.c0 /\ hs.c1 = t.c1 /\ hs.c2 = t.c2
               /\ hs.c = t.c /\ hs.H = t.H /\ hs.k = t.k)
        /\ hs.data = [i \in 1..(t.width * t.height) |-> Sample(t.seed, i)]

\* C2: hsd_read of a well-formed container returns a record whose fields equal
\* the values the container was built from and whose raw array is the
\* width*height samples in file order.
C2_HeaderRoundTrip ==
    (pc # "read" /\ WellFormed) => (pc = "returned" /\ FieldsRecovered)

\* the same, for the calls that do not print data[0] of an empty raster
C2_RoundTripNonEmpty ==
    (pc # "read" /\ WellFormed /\ (~call.debug \/ call.tile.width * call.tile.height > 0))
        => (pc = "returned" /\ FieldsRecovered)

C2_Witness ==
    /\ pc = "raised" /\ err = "IndexError"
    /\ WellFormed /\ call.debug /\ call.tile.width * call.tile.height = 0

C2_WitnessRecovered ==
    /\ pc = "returned" /\ WellFormed /\ FieldsRecovered
    /\ hs.band > 6 /\ Len(hs.data) = MaxPixels

\* C3: a call that returns has found every byte its reads and skips asked for (the
\* cursor never went beyond the end of the file), and its raw array has
\* width*height samples.
C3_TruncatedFails ==
    pc = "returned" =>
        /\ \A i \in 1..Len(cursor) : cursor[i] <= call.len
        /\ Len(hs.data) = hs.width * hs.height

C3_Witness ==
    /\ pc = "returned"
    /\ \E i \in 1..Len(cursor) : cursor[i] > call.len
    /\ hs.width * hs.height = 0

\* what holds of the code: a call on a cut container that has a pixel to read raises
C3_TruncatedNonEmptyFails ==
    (pc # "read" /\ call.len < FullLen(call.tile) /\ call.tile.len8 >= 2
        /\ call.tile.width * call.tile.height > 0) => pc = "raised"

(***************************************************************************)
(* Claims about the calibration (SpecCal).                                 *)
(***************************************************************************)
NoConstants == hs.band <= 6 /\ hs.c = Zero /\ hs.H = Zero /\ hs.k = Zero

\* C6: calibrating a record without radiometric constants (band <= 6, so
\* c = H = k = 0) raises and leaves the temp field of the record unset.
C6_NoConstantsRaises ==
    (pc # "calibrate" /\ NoConstants) => (pc = "raised" /\ hs.temp = None)

\* the same for the wavelengths that are finite numbers
C6_FiniteWavelengthRaises ==
    (pc # "calibrate" /\ NoConstants /\ IsFin(hs.wavelength))
        => (pc = "raised" /\ err = "ZeroDivisionError" /\ hs.temp = None)

C6_Witness ==
    /\ pc = "calibrated"
    /\ NoConstants
    /\ hs.wavelength = PInf
    /\ Len(hs.temp.array) = 2
    /\ \A i \in 1..2 : hs.temp.array[i] = NaN

NonPositive(a) == a = NInf \/ (IsFin(a) /\ a[2] <= 0)

\* C7: every raw value whose logarithm argument h2cc_over_wl5 / radiance + 1 is
\* not positive gets the sentinel 0 K in the temperature array; no NaN or
\* infinity is stored for it.
C7_NonPositiveLogGivesSentinel ==
    pc = "calibrated" =>
        \A i \in 1..Len(hs.data) :
            NonPositive(log_arg(cal_consts(hs), hs.data[i])) => hs.temp.array[i] = Zero

C7_Witness ==
    /\ pc = "calibrated"
    /\ hs.band > 6
    /\ \E i \in 1..Len(hs.data) :
        /\ hs.data[i] = 1001
        /\ NonPositive(log_arg(cal_consts(hs), hs.data[i]))
        /\ hs.temp.array[i] = NaN

Computable == cal_consts(hs).err = "" /\ (call.debug => Len(hs.data) > 0)

\* C8: when the constants are computable, calibration completes and the
\* temperature written at every pixel i is the direct inverse Planck law of
\* data[i]: the per-value table has an entry for every value that occurs and
\* gives the uncached result.
C8_LookupEqualsDirect ==
    (pc # "calibrate" /\ Computable) =>
        /\ pc = "calibrated"
        /\ Len(hs.temp.array) = Len(hs.data)
        /\ \A i \in 1..Len(hs.data) : hs.temp.array[i] = planck(cal_consts(hs), hs.data[i])

C8_Witness ==
    /\ pc = "calibrated"
    /\ Len(hs.data) = 2
    /\ hs.data[1] = 996 /\ hs.data[2] = 999
    /\ hs.temp.array[1][1] = "planck"
    /\ hs.temp.array[2][1] = "planck"
    /\ hs.temp.array[1] # hs.temp.array[2]

(***************************************************************************)
(* Claims about the ramps (SpecRamp).                                      *)
(***************************************************************************)
\* C10: under bd_scale, color2_scale and wvnrl_scale every position whose
\* temperature is exactly 0 K gets the triplet (0, 0, 0), whatever the other
\* elements of the field are.
C10_ZeroKelvinIsBlack ==
    pc = "mapped" =>
        /\ Len(pixels) = Len(call.temp)
        /\ \A i \in 1..Len(call.temp) : call.temp[i] = Zero => pixels[i] = <<0, 0, 0>>

C10_Witness ==
    /\ pc = "mapped"
    /\ call.op = "wvnrl"
    /\ Len(call.temp) = 2
    /\ call.temp[1] = K(26000)
    /\ call.temp[2] = Zero
    /\ pixels[1] # <<0, 0, 0>>
    /\ pixels[2] = <<0, 0, 0>>

(***************************************************************************)
(* Claims about the render pipeline (Spec).                                *)
(***************************************************************************)
\* the record the segment stitcher makes of the files the call started with
Stitched == read_hsd_full(call.disk, call.filepath, call.delete_dat, TRUE, TRUE)

\* C4: the record hsd_render calibrates and colour-maps is the merged record the
\* segment stitcher produces from all the sibling tiles of the input path.
C4_RendersMergedRecord ==
    pc \in {"render_calibrate", "render_colormap"} =>
        /\ Stitched.err = ""
        /\ [hs EXCEPT !.temp = None] = Stitched.rec

C4_Witness ==
    /\ pc = "render_colormap"
    /\ Len(find_all_segments(call.disk, call.filepath)) = 2
    /\ Stitched.err = ""
    /\ Stitched.rec.height = 2 * hs.height
    /\ Len(Stitched.rec.data) = 2 * Len(hs.data)
    /\ Len(hs.data) > 0

\* C5: for every decoded record whose band exceeds 3 the calibration step of
\* hsd_render completes and leaves a temperature array of width*height elements.
C5_CalibrationCompletes ==
    (hs # None /\ hs.band > 3 /\ pc # "render_calibrate") =>
        /\ hs.temp # None
        /\ Len(hs.temp.array) = hs.width * hs.height

\* the same for the bands above 6 whose constants are computable
C5_CompletesAboveSix ==
    (hs # None /\ hs.band > 6 /\ pc # "render_calibrate" /\ cal_consts(hs).err = "") =>
        /\ hs.temp # None
        /\ Len(hs.temp.array) = hs.width * hs.height

C5_Witness ==
    /\ pc = "raised" /\ err = "ZeroDivisionError"
    /\ hs # None /\ hs.band \in {4, 6}
    /\ hs.temp = None
    /\ IsFin(hs.wavelength)

\* C9: for a record with band <= 3 and every colour scale 0..3, hsd_render never
\* reaches hsd_calibration, leaves temp unset, and the pixels it produces are the
\* grayscale ramp of the raw counts.
C9_VisibleNeverCalibrated ==
    (hs # None /\ hs.band <= 3) =>
        /\ pc \in {"render_colormap", "render_save", "saved"}
        /\ hs.temp = None
        /\ pc = "render_save" => pixels = bw_scale(hs.data, hs.bit_num)
        /\ pc = "saved" =>
               pixels = reshape(bw_scale(hs.data, hs.bit_num), hs.height, hs.width)

C9_Witness ==
    /\ pc = "saved"
    /\ hs.band = 3
    /\ call.color = 2
    /\ Len(hs.data) = MaxPixels
    /\ pixels = reshape(bw_scale(hs.data, hs.bit_num), hs.height, hs.width)

(***************************************************************************)
(* Claims about single elements of the colour scales (SpecScale).          *)
(***************************************************************************)
\* the nine thresholds of the BD ramp from the top, and the value of band j at
\* temperature t: band 0 lies above the first threshold, band j between
\* thresholds j+1 and j, band 9 at and below the last one
BDThresholdSeq == <<30315, 28215, 24215, 23115, 21915, 20915, 20315, 19715, 19215>>

BDBandValue(j, t) ==
    CASE j = 0 -> 0
      [] j = 1 -> Trunc(FMul(FSub(K(30315), t), Int2F(12)))
      [] j = 2 -> Trunc(FAdd(FMul(FSub(K(28215), t), Int2F(2)), Int2F(100)))
      [] j = 3 -> 80
      [] j = 4 -> 130
      [] j = 5 -> 190
      [] j = 6 -> 0
      [] j = 7 -> 255
      [] j = 8 -> 170
      [] j = 9 -> 120

Gray(v) == <<v, v, v>>

\* C11: at each of the nine thresholds of the BD ramp, a temperature 0.01 K above
\* the threshold takes the value of the band above it and a temperature exactly
\* at the threshold takes the value of the band below it.
C11_BDRightOpen ==
    (pc = "scaled" /\ call.op = "bd") =>
        \A k \in 1..9 :
            /\ call.temp = K(BDThresholdSeq[k] + 1)
                   => pixels = <<Gray(BDBandValue(k - 1, call.temp))>>
            /\ call.temp = K(BDThresholdSeq[k])
                   => pixels = <<Gray(BDBandValue(k, call.temp))>>

C11_Witness ==
    /\ pc = "scaled" /\ call.op = "bd"
    /\ call.temp = K(28215)
    /\ pixels = <<Gray(100)>>

C11_WitnessAbove ==
    /\ pc = "scaled" /\ call.op = "bd"
    /\ call.temp = K(28216)
    /\ pixels = <<Gray(251)>>

\* C12: for every temperature the BD ramp gives a channel value in 0..255, and
\* the expression of each linear band is within the range of the 8-bit cast, so
\* the cast has one outcome; bd_scale_value returns an integer in 0..255 as well.
C12_BDInByteRange ==
    pc = "scaled" =>
        /\ call.op = "bd" =>
               /\ Cardinality(bd_value(call.temp)) = 1
               /\ \A ch \in 1..3 : pixels[1][ch] \in 0..255
        /\ call.op = "bd_scale_value" => pixels \in 0..255

C12_Witness ==
    /\ pc = "scaled" /\ call.op = "bd"
    /\ call.temp = K(24216)
    /\ pixels = <<Gray(179)>>

C12_WitnessValue ==
    /\ pc = "scaled" /\ call.op = "bd_scale_value"
    /\ call.temp = K(28216)
    /\ pixels = 251

Unmatched(t) == wvnrl_r_assigned(kelvin(t)) = {}

\* C13: in the water-vapor ramp the red channel is 128 for every temperature
\* that is not the missing-data value 0 K and that none of the red channel's
\* ranges matches.
C13_RedDefaultsTo128 ==
    (pc = "scaled" /\ call.op = "wvnrl") =>
        ((call.temp # Zero /\ Unmatched(call.temp)) => pixels[1][1] = 128)

\* what holds of the code: the ranges match every temperature above 0, and an
\* element no range matches is black in the red channel
C13_UnmatchedRedIsZero ==
    (pc = "scaled" /\ call.op = "wvnrl") =>
        /\ Unmatched(call.temp) <=> ~Valid(kelvin(call.temp))
        /\ Unmatched(call.temp) => pixels[1][1] = 0

C13_Witness ==
    /\ pc = "scaled" /\ call.op = "wvnrl"
    /\ call.temp = NaN
    /\ Unmatched(call.temp)
    /\ pixels[1] = <<0, 0, 0>>

\* s >> n for a 16-bit s
Shr(s, n) == IF n >= 16 THEN 0 ELSE s \div Pow(2, n)

\* C14: for every 16-bit sample s and every bit depth b, bw_scale gives the
\* triplet (g, g, g) with g = s >> max(0, b - 8).
C14_ShiftedValueIsLuminance ==
    (pc = "scaled" /\ call.op = "bw_scale") =>
        pixels = <<Gray(Shr(call.data[1], Max(0, call.bit_num - 8)))>>

\* what holds of the code: g is the low 8 bits of the shifted value, which is the
\* shifted value itself for the samples below 2^max(b, 8)
C14_LowByteOfShifted ==
    (pc = "scaled" /\ call.op = "bw_scale") =>
        LET g == Shr(call.data[1], Max(0, call.bit_num - 8))
        IN  /\ pixels = <<Gray(g % 256)>>
            /\ (call.bit_num >= 16 \/ call.data[1] < Pow(2, Max(call.bit_num, 8)))
                   => pixels = <<Gray(g)>>

C14_Witness ==
    /\ pc = "scaled" /\ call.op = "bw_scale"
    /\ call.data = <<2048>> /\ call.bit_num = 11
    /\ pixels = <<Gray(0)>>

(***************************************************************************)
(* Claims about the segment stitcher (SpecMerge).                          *)
(***************************************************************************)
\* the tiles written at the paths of a list, in list order
TilesOf(files) == [j \in 1..Len(files) |-> call.tiles[files[j]]]

\* the samples written into a tile, row after row
Written(t) == [i \in 1..(t.width * t.height) |-> Sample(t.seed, i)]

RECURSIVE Joined(_)
Joined(ts) == IF ts = <<>> THEN <<>> ELSE Written(Head(ts)) \o Joined(Tail(ts))

RECURSIVE Rows(_, _)
\* the number of rows of the first n tiles of a list
Rows(ts, n) == IF n = 0 THEN 0 ELSE Rows(ts, n - 1) + ts[n].height

\* every path of the list is a file of the directory, and the tiles are as wide
\* as the first one
EqualWidths(files) ==
    /\ files # <<>>
    /\ \A j \in 1..Len(files) : call.tiles[files[j]] # None
    /\ \A j \in 1..Len(files) : call.tiles[files[j]].width = call.tiles[files[1]].width

\* C15: merge_segments on N >= 1 tiles of equal width returns a record whose width
\* is the tiles' width, whose height is the sum of their heights and whose data is
\* the tiles' data joined in list order, so that row r of tile j is row
\* Rows(j - 1) + r of the mosaic.
C15_MosaicIsVerticalJoin ==
    (call.op = "merge_segments" /\ pc # "merge" /\ EqualWidths(call.segment_files))
        => LET ts == TilesOf(call.segment_files)
               w == ts[1].width
           IN  /\ pc = "returned"
               /\ hs.width = w
               /\ hs.height = Rows(ts, Len(ts))
               /\ hs.data = Joined(ts)
               /\ \A j \in 1..Len(ts) : \A r \in 1..ts[j].height : \A x \in 1..w :
                      hs.data[(Rows(ts, j - 1) + r - 1) * w + x]
                          = Sample(ts[j].seed, (r - 1) * w + x)

\* three tiles of 2, 1 and 0 rows of two pixels were merged
C15_Witness ==
    /\ call.op = "merge_segments" /\ pc = "returned"
    /\ Len(call.segment_files) = 3
    /\ hs.width = 2 /\ hs.height = 3
    /\ hs.data = <<997, 999, 1001, 1003, 998, 1000>>

\* the second segment was listed before the first one
C15_WitnessListOrder ==
    /\ call.op = "merge_segments" /\ pc = "returned"
    /\ call.segment_files = <<Seg(2, FALSE), Seg(1, TRUE)>>
    /\ hs.height = 3
    /\ hs.data = <<998, 1000, 997, 999, 1001, 1003>>

\* every path of the list is a file of the directory, and some tile is not as
\* wide as the first one
WidthMismatch(files) ==
    /\ files # <<>>
    /\ \A j \in 1..Len(files) : call.tiles[files[j]] # None
    /\ \E j \in 1..Len(files) : call.tiles[files[j]].width # call.tiles[files[1]].width

\* the list read_hsd_full hands to merge_segments, <<>> when it merges nothing
HandedToMerge ==
    IF call.auto_merge /\ parse_segment_number(call.filepath) # <<>>
       /\ Len(find_all_segments(call.disk, call.filepath)) > 1
    THEN find_all_segments(call.disk, call.filepath)
    ELSE <<>>

\* C16: when a tile's width differs from the first tile's, merge_segments raises
\* ValueError and returns no record, and read_hsd_full, merging the siblings it
\* found, raises the same error instead of returning the record of a single tile.
C16_WidthMismatchRaises ==
    /\ (call.op = "merge_segments" /\ pc # "merge" /\ WidthMismatch(call.segment_files))
           => (pc = "raised" /\ err = "ValueError" /\ hs = None)
    /\ (call.op = "read_hsd_full" /\ pc # "read_full" /\ WidthMismatch(HandedToMerge))
           => (pc = "raised" /\ err = "ValueError" /\ hs = None)

\* read_hsd_full found a wider sibling of a readable tile and raised
C16_Witness ==
    /\ call.op = "read_hsd_full" /\ pc = "raised" /\ err = "ValueError"
    /\ WidthMismatch(HandedToMerge)
    /\ hsd_read(call.disk, call.filepath, call.delete_dat, call.debug).err = ""

\* merge_segments raised on the third of three tiles
C16_WitnessThird ==
    /\ call.op = "merge_segments" /\ pc = "raised" /\ err = "ValueError"
    /\ Len(call.segment_files) = 3
    /\ WidthMismatch(call.segment_files)
    /\ call.tiles[call.segment_files[2]].width = call.tiles[call.segment_files[1]].width

\* what hsd_read does with the path and the flags of the call
SingleRead == hsd_read(call.disk, call.filepath, call.delete_dat, call.debug)

\* the siblings discovery finds for the path of the call
Discovered == find_all_segments(call.disk, call.filepath)

\* C17: when the path has no segment token, or discovery finds no sibling or
\* exactly one, read_hsd_full does exactly what hsd_read(path) does: it returns the
\* same record (or raises the same error) and leaves the same files behind.
C17_SingleTileIsPlainRead ==
    (call.op = "read_hsd_full" /\ pc # "read_full"
     /\ (parse_segment_number(call.filepath) = <<>> \/ Len(Discovered) <= 1))
        => /\ err = SingleRead.err
           /\ hs = SingleRead.rec
           /\ fs = SingleRead.fs
           /\ pc = IF SingleRead.err = "" THEN "returned" ELSE "raised"

\* discovery found only the tile itself, and its record was returned
C17_Witness ==
    /\ call.op = "read_hsd_full" /\ pc = "returned" /\ call.auto_merge
    /\ parse_segment_number(call.filepath) # <<>>
    /\ Len(Discovered) = 1
    /\ hs = SingleRead.rec
    /\ hs.width = call.tiles[Discovered[1]].width

\* a path without a segment token was read with auto_merge
C17_WitnessNoToken ==
    /\ call.op = "read_hsd_full" /\ pc = "returned" /\ call.auto_merge
    /\ call.filepath = Plain
    /\ hs.data = Written(call.tiles[Plain])

\* discovery found nothing, and the error is the one hsd_read raises
C17_WitnessNoneFound ==
    /\ call.op = "read_hsd_full" /\ pc = "raised" /\ call.auto_merge
    /\ parse_segment_number(call.filepath) # <<>>
    /\ Discovered = <<>>
    /\ err = "FileNotFoundError"

\* the name with index n in place of the segment token of the path of the call
Candidate(n) ==
    IF call.filepath.tok = <<>> THEN call.filepath
    ELSE [tok |-> <<n \div 10, n % 10, 1, 0>>, bz |-> call.filepath.bz]

\* what the directory holds for index n: the candidate, or the .DAT form of an
\* absent .bz2 candidate, or nothing
Present(n) ==
    IF call.disk[Candidate(n)] # None THEN <<Candidate(n)>>
    ELSE IF Candidate(n).bz /\ call.disk[strip_bz2(Candidate(n))] # None
    THEN <<strip_bz2(Candidate(n))>>
    ELSE <<>>

\* the indices of 1..10 for which the directory holds something
PresentIndices ==
    {n \in 1..10 : Candidate(n) \in DOMAIN call.disk /\ Present(n) # <<>>}

\* the segment index a path of the model carries
IndexOf(p) == 10 * p.tok[1] + p.tok[2]

\* C18: find_all_segments returns, for the indices 1..10 in ascending order, exactly
\* the candidates that exist (the .DAT form for an absent .bz2 candidate): at most
\* 10 paths, one per index that has a file, and for a path with a segment token
\* in strictly ascending segment index.
C18_SiblingsInIndexOrder ==
    (call.op = "find_all_segments" /\ pc = "returned")
        => /\ Len(hs.segments) = Cardinality(PresentIndices)
           /\ Len(hs.segments) <= 10
           /\ \A n \in PresentIndices :
                  hs.segments[Cardinality({m \in PresentIndices : m <= n})] = Present(n)[1]
           /\ \A k \in 1..Len(hs.segments) : call.disk[hs.segments[k]] # None
           /\ call.filepath.tok # <<>>
                  => \A k \in 1..(Len(hs.segments) - 1) :
                         IndexOf(hs.segments[k]) < IndexOf(hs.segments[k + 1])

\* from a .bz2 name: the .DAT form of segment 1, then segments 2 and 3
C18_Witness ==
    /\ call.op = "find_all_segments" /\ pc = "returned"
    /\ call.filepath = Seg(1, TRUE)
    /\ call.disk[Seg(1, TRUE)] = None
    /\ hs.segments = <<Seg(1, FALSE), Seg(2, TRUE), Seg(3, FALSE)>>

\* from a token that does not end in "10": its own file is no candidate
C18_WitnessOddToken ==
    /\ call.op = "find_all_segments" /\ pc = "returned"
    /\ call.filepath = Odd
    /\ hs.segments = <<Seg(2, FALSE)>>

\* a name without a token is its own candidate for every index
C18_WitnessNoToken ==
    /\ call.op = "find_all_segments" /\ pc = "returned"
    /\ call.filepath = Plain
    /\ hs.segments = [k \in 1..10 |-> Plain]

\* the fields of a record that say nothing about its geometry
Metadata(rec) ==
    [f \in {"satellite_name", "band", "wavelength", "bit_num", "slope", "intc",
            "c0", "c1", "c2", "c", "H", "k"} |-> rec[f]]

\* the record hsd_read returns for the j-th path of the list of the call
TileRecord(j) == hsd_read(call.disk, call.segment_files[j], FALSE, FALSE).rec

\* C19: the satellite name, band, wavelength, bit depth, slope, intercept, c0, c1,
\* c2, c, H and k of the record merge_segments returns are those of the first tile
\* of the list, whatever the later tiles carry.
C19_MetadataOfFirstTile ==
    (call.op = "merge_segments" /\ pc = "returned")
        => Metadata(hs) = Metadata(TileRecord(1))

\* two tiles that differ in every metadata field were merged, the second segment
\* first
C19_Witness ==
    /\ call.op = "merge_segments" /\ pc = "returned"
    /\ call.segment_files = <<Seg(2, FALSE), Seg(1, FALSE)>>
    /\ hs.band = 3 /\ hs.bit_num = 12
    /\ \A f \in DOMAIN Metadata(hs) : TileRecord(2)[f] # hs[f]

\* C20: every record hsd_read, merge_segments or read_hsd_full returns holds
\* exactly width * height samples.
C20_SampleCountIsArea ==
    (call.op \in {"hsd_read", "merge_segments", "read_hsd_full"} /\ pc = "returned")
        => Len(hs.data) = hs.width * hs.height

\* read_hsd_full returned a mosaic of three tiles of 2, 1 and 0 rows
C20_Witness ==
    /\ call.op = "read_hsd_full" /\ pc = "returned"
    /\ Len(Discovered) = 3
    /\ hs.width = 2 /\ hs.height = 3 /\ Len(hs.data) = 6

\* hsd_read returned a tile without rows
C20_WitnessEmpty ==
    /\ call.op = "hsd_read" /\ pc = "returned"
    /\ hs.width = 1 /\ hs.height = 0 /\ hs.data = <<>>

\* hsd_read returned nothing for a file that lacks the last byte of its samples
C20_WitnessShort ==
    /\ call.op = "hsd_read" /\ pc = "raised" /\ err = "ValueError"
    /\ call.filepath = Odd /\ hs = None

(***************************************************************************)
(* Claims about decompression and clean-up (SpecDisk).                     *)
(***************************************************************************)
\* what decoding the decompressed contents of the .bz2 of the call yields
OfCompressed == hsd_parse(call.disk[PathBZ2], call.debug)

\* C21: hsd_read of a .bz2 path decodes the decompressed contents of that .bz2,
\* whatever the directory held before, a .DAT of the same base name included.
C21_DecodesCompressedContents ==
    (call.filepath = PathBZ2 /\ pc # "read" /\ call.disk[PathBZ2] # None)
        => /\ err = OfCompressed.err
           /\ hs = OfCompressed.rec

\* C21, where it holds: with no .DAT of the same base name in the directory,
\* hsd_read of a .bz2 path decodes the decompressed contents of that .bz2.
C21_FreshExtractionDecoded ==
    (call.filepath = PathBZ2 /\ pc # "read" /\ call.dat = "none"
     /\ call.disk[PathBZ2] # None)
        => /\ err = OfCompressed.err
           /\ hs = OfCompressed.rec
           /\ fs[PathBZ2] = call.disk[PathBZ2]

\* a record was returned from a .DAT that is not the extraction of the .bz2
C21_Witness ==
    /\ call.filepath = PathBZ2 /\ pc = "returned"
    /\ call.dat = "stale" /\ call.disk[PathBZ2] # None
    /\ OfCompressed.err = ""
    /\ hs # OfCompressed.rec
    /\ hs.band = 3 /\ OfCompressed.rec.band = 7

\* a record was returned for a .bz2 path at which there is no file
C21_WitnessNoArchive ==
    /\ call.filepath = PathBZ2 /\ pc = "returned"
    /\ call.disk[PathBZ2] = None

(***************************************************************************)
(* Claims about the segment number of a name (SpecName).                   *)
(***************************************************************************)
\* C22: parse_segment_number returns None or an integer of 1..10.
C22_SegmentNumberInRange ==
    pc = "returned" => (hs.seg_num = <<>> \/ hs.seg_num[1] \in 1..10)

\* C22, as the code has it: parse_segment_number returns None or the two digits
\* before "10", an integer of 0..99.
C22_SegmentNumberIsTwoDigits ==
    pc = "returned"
        => IF Len(call.filepath.tok) = 4 /\ call.filepath.tok[3] = 1
              /\ call.filepath.tok[4] = 0
           THEN hs.seg_num = <<10 * call.filepath.tok[1] + call.filepath.tok[2]>>
                /\ hs.seg_num[1] \in 0..99
           ELSE hs.seg_num = <<>>

\* the name ..._S0010.DAT was given segment number 0
C22_Witness ==
    /\ pc = "returned"
    /\ call.filepath = [tok |-> <<0, 0, 1, 0>>, bz |-> FALSE]
    /\ hs.seg_num = <<0>>

\* the name ..._S9910.DAT.bz2 was given segment number 99
C22_WitnessHigh ==
    /\ pc = "returned"
    /\ call.filepath = [tok |-> <<9, 9, 1, 0>>, bz |-> TRUE]
    /\ hs.seg_num = <<99>>

(***************************************************************************)
(* Claims about the cursor of the decoder (SpecRead).                      *)
(***************************************************************************)
\* the cursor positions of the walk never decrease
NeverBackwards == \A i \in 1..(Len(cursor) - 1) : cursor[i] <= cursor[i + 1]

\* C23: during hsd_read the cursor never moves backwards, whatever the values of
\* the length fields len8, len9 and len10 of the file.
C23_CursorNeverMovesBack ==
    pc # "read" => NeverBackwards

\* C23, where it holds: when the length fields len8 and len9 count at least their
\* own two bytes, the cursor never moves backwards.
C23_ForwardWhenLengthsCountThemselves ==
    (pc # "read" /\ call.tile.len8 >= 2 /\ call.tile.len9 >= 2) => NeverBackwards

\* a whole file whose len8 field is 0 was read: after the field the cursor went
\* from 1054 back to 1052
C23_Witness ==
    /\ pc = "returned" /\ call.tile.len8 = 0
    /\ \E i \in 1..(Len(cursor) - 1) : cursor[i] = 1054 /\ cursor[i + 1] = 1052

(***************************************************************************)
(* Claims about the casts of the colour ramps (SpecScale).                 *)
(***************************************************************************)
\* the values each channel of the ramp of the call can take for the element
ChannelValues ==
    IF call.op = "color2"
    THEN <<color2_r(call.temp), color2_g(call.temp), color2_b(call.temp)>>
    ELSE <<wvnrl_r(call.temp), wvnrl_g(call.temp), wvnrl_b(call.temp)>>

\* the cast of every channel is that of a value of 0..255: it has one outcome,
\* the value's integer part
CastsDefined == \A ch \in 1..3 : Cardinality(ChannelValues[ch]) = 1

\* C24: for every temperature above 0 K every channel expression of the Color2
\* and water-vapor ramps has a value of 0..255 before the cast to 8 bits.
C24_ChannelsInByteRange ==
    (call.op \in {"color2", "wvnrl"} /\ pc = "scaled" /\ Valid(kelvin(call.temp)))
        => CastsDefined

\* C24, where it holds: from 173.15 K up for Color2, and from 203.15 K up except
\* in the band (233.15, 243.15] for the water-vapor ramp.
C24_InRangeAwayFromColdEnd ==
    (call.op \in {"color2", "wvnrl"} /\ pc = "scaled" /\ Valid(kelvin(call.temp)))
        => /\ (call.op = "color2" /\ ~FGt(K(17315), kelvin(call.temp))) => CastsDefined
           /\ (call.op = "wvnrl" /\ ~FGt(K(20315), kelvin(call.temp))
               /\ ~Within(kelvin(call.temp), 23315, 24315)) => CastsDefined

\* water-vapor red at 243.15 K: (127 + 243.15 - 243.15) * 12.8 = 1625.6, stored
\* as 1625 mod 256 = 89
C24_Witness ==
    /\ call.op = "wvnrl" /\ pc = "scaled" /\ call.temp = K(24315)
    /\ ~CastsDefined
    /\ pixels[1][1] = 89

\* Color2 at 150 K: (150 - 173.15) * 25 = -578.75 on all three channels
C24_WitnessCold ==
    /\ call.op = "color2" /\ pc = "scaled" /\ call.temp = K(15000)
    /\ ~CastsDefined
    /\ pixels[1] = <<(-578) % 256, (-578) % 256, (-578) % 256>>

(***************************************************************************)
(* Claims about the removal of the extracted file (SpecDisk).              *)
(***************************************************************************)
\* C25: hsd_read with delete_dat=True never removes the file at the path it was
\* given, and a .DAT that existed before the call is still there after it.
C25_RemovesOnlyItsOwnExtraction ==
    (pc # "read" /\ call.delete_dat)
        => /\ fs[call.filepath] = call.disk[call.filepath]
           /\ call.disk[PathExtracted] # None
                  => fs[PathExtracted] = call.disk[PathExtracted]

\* C25, the part that holds: the file at the given path is never removed, and
\* without delete_dat no file that existed before the call is removed.
C25_GivenPathKept ==
    pc # "read"
        => /\ fs[call.filepath] = call.disk[call.filepath]
           /\ ~call.delete_dat
                  => \A p \in DOMAIN fs : call.disk[p] # None => fs[p] = call.disk[p]

\* a .DAT that was there before the call was removed by a read of the .bz2
C25_Witness ==
    /\ pc = "returned" /\ call.delete_dat /\ call.filepath = PathBZ2
    /\ call.dat = "same" /\ call.disk[PathBZ2] # None
    /\ fs[PathExtracted] = None
    /\ fs[PathBZ2] = call.disk[PathBZ2]

\* the .DAT this call extracted was removed again
C25_WitnessOwnExtraction ==
    /\ pc = "returned" /\ call.delete_dat /\ call.filepath = PathBZ2
    /\ call.dat = "none"
    /\ fs = call.disk

(***************************************************************************)
(* Claims about the two BD ramps (SpecScale).                              *)
(***************************************************************************)
\* C26: for every temperature t, t <= 0 included, bd_scale_value(t) equals each
\* of the three channels bd_scale gives a field that holds t.
C26_ScalarAndArrayAgree ==
    pc = "scaled"
        => /\ call.op = "bd" => pixels = <<Gray(bd_scale_value(call.temp))>>
           /\ call.op = "bd_scale_value" => bd_scale(<<call.temp>>) = {<<Gray(pixels)>>}

\* C26, where it holds: the two ramps agree on every temperature above 0 K.
C26_AgreeAboveZero ==
    (pc = "scaled" /\ call.op \in {"bd", "bd_scale_value"} /\ Valid(kelvin(call.temp)))
        => /\ call.op = "bd" => pixels = <<Gray(bd_scale_value(call.temp))>>
           /\ call.op = "bd_scale_value" => bd_scale(<<call.temp>>) = {<<Gray(pixels)>>}

\* at 0 K the array ramp gave black where the scalar ramp gives 120
C26_Witness ==
    /\ pc = "scaled" /\ call.op = "bd" /\ call.temp = Zero
    /\ pixels = <<Gray(0)>>
    /\ bd_scale_value(call.temp) = 120

\* the scalar ramp gave 120 for a temperature that is not a number
C26_WitnessNaN ==
    /\ pc = "scaled" /\ call.op = "bd_scale_value" /\ call.temp = NaN
    /\ pixels = 120
    /\ bd_scale(<<call.temp>>) = {<<Gray(0)>>}

\* at 282.16 K both ramps give 251
C26_WitnessAgree ==
    /\ pc = "scaled" /\ call.op = "bd" /\ call.temp = K(28216)
    /\ pixels = <<Gray(251)>>
    /\ bd_scale_value(call.temp) = 251

====
